---- MODULE Spec2Model ----
(***************************************************************************)
(* Movie-Recommendation-App: the client-side listing stores (TV series     *)
(* store, movie store), the catalog client they call, and the result       *)
(* caches between them.                                                    *)
(*                                                                         *)
(* A store is a zustand object: set(partial) merges fields into the state, *)
(* get() reads it.  An async action runs synchronously up to its first     *)
(* await, so every action below is split at the await of the upstream      *)
(* request: "...Start" is the code before it, "...Resolve" the code after. *)
(***************************************************************************)
EXTENDS Integers, Sequences, FiniteSets, TLC

VARIABLES
    tv,        \* state of useTVSeriesStore
    mv,        \* state of useMovieStore
    calls,     \* async store actions suspended at their upstream await
    started,   \* number of store actions invoked so far
    now,       \* Date.now(), in milliseconds
    meta,      \* history: for each movieCache key, the request that filled it
    last,      \* history: what the most recent step did
    pop,       \* one getPopularMovies invocation (fan-out / join)
    trend,     \* one getTrendingMovies invocation (three pages, each retried)
    trailer,   \* one getBestTrailer invocation (argument and returned video)
    auth,      \* the auth store, localStorage and the requests it has in flight
    acct,      \* the account service: users collection, clock, issued tokens
    ui         \* the components: SearchBar, the router and ProtectedRoute

\* the variables of the components that the listing stores do not touch
otherVars == <<trend, trailer, auth, acct, ui>>

vars == <<tv, mv, calls, started, now, meta, last, pop, otherVars>>

(***************************************************************************)
(* Bounds of the model.                                                    *)
(***************************************************************************)
MaxCalls == 2        \* store actions invoked in one behaviour
MaxPage == 2         \* listing pages 1..MaxPage
MaxEpochs == 1       \* the clock runs up to MaxEpochs expiration windows
MaxLen == 1          \* items in one upstream page of the store model

(***************************************************************************)
(* JavaScript helpers.                                                     *)
(***************************************************************************)
\* null / undefined in a string-valued field
Null == "<null>"

\* Math.ceil(a / b) for a >= 0, b > 0
CeilDiv(a, b) == (a + b - 1) \div b

\* x || 1 for a numeric x (0 and a missing field are falsy)
OrOne(x) == IF x = 0 THEN 1 ELSE x

\* String.prototype.trim() over the space character
RECURSIVE TrimLeft(_)
TrimLeft(s) ==
    IF Len(s) > 0 /\ SubSeq(s, 1, 1) = " " THEN TrimLeft(SubSeq(s, 2, Len(s))) ELSE s

RECURSIVE TrimRight(_)
TrimRight(s) ==
    IF Len(s) > 0 /\ SubSeq(s, Len(s), Len(s)) = " "
    THEN TrimRight(SubSeq(s, 1, Len(s) - 1)) ELSE s

Trim(s) == TrimRight(TrimLeft(s))

\* `${b}` for a boolean b
BoolStr(b) == IF b THEN "true" ELSE "false"

\* { ...obj, [k]: v } on an object used as a map
Put(obj, k, v) == [x \in DOMAIN obj \cup {k} |-> IF x = k THEN v ELSE obj[x]]

\* {} used as a map
EmptyMap == [x \in {} |-> 0]

(***************************************************************************)
(* Catalog client: failures of an upstream request.                        *)
(*                                                                         *)
(* An error value is what a catch block receives.  isAxiosError is the     *)
(* flag axios.isAxiosError() tests; hasResponse / hasRequest are the       *)
(* truthiness of error.response / error.request.                           *)
(***************************************************************************)
UnknownErrorMessage == "An unknown error occurred"

\* the HTTP statuses the upstream answers a failed request with in the model:
\* the four classified ones (two of the 5xx) and one the switch leaves to default
Statuses == {401, 404, 429, 500, 503, 422}

\* `Error: ${status}`
StatusText(status) == "Error: " \o ToString(status)

\* the error axios rejects with when the server answered with a failure status
HttpError(status, status_message) ==
    [isAxiosError |-> TRUE, hasResponse |-> TRUE, hasRequest |-> TRUE,
     status |-> status, status_message |-> status_message,
     message |-> "Request failed with status code " \o ToString(status)]

\* the error axios rejects with when no response arrived (network, 30 s timeout)
NoResponseError ==
    [isAxiosError |-> TRUE, hasResponse |-> FALSE, hasRequest |-> TRUE,
     status |-> 0, status_message |-> "", message |-> "Network Error"]

\* the error axios rejects with when the request could not be set up
SetupError ==
    [isAxiosError |-> TRUE, hasResponse |-> FALSE, hasRequest |-> FALSE,
     status |-> 0, status_message |-> "", message |-> "Request setup failed"]

\* new Error(message)
PlainError(message) ==
    [isAxiosError |-> FALSE, hasResponse |-> FALSE, hasRequest |-> FALSE,
     status |-> 0, status_message |-> "", message |-> message]

\* every way a single upstream request can fail
AxiosErrors ==
    {HttpError(st, "") : st \in Statuses}
        \cup {HttpError(422, "Invalid page"), NoResponseError, SetupError}

\* the switch on error.response.status shared by the two classifiers
StatusMessageOf(error) ==
    CASE error.status = 401 -> "Invalid API key or unauthorized request"
      [] error.status = 404 -> "The requested resource was not found"
      [] error.status = 429 -> "Too many requests. Please try again later"
      [] error.status \in {500, 502, 503, 504} -> "Server error. Please try again later"
      [] OTHER -> IF error.status_message # "" THEN error.status_message
                  ELSE StatusText(error.status)

\* tmdbApi.interceptors.response (rejection handler): what the request promise
\* rejects with once the interceptor has run
ResponseInterceptor(error) ==
    PlainError(
        IF error.isAxiosError
        THEN IF error.hasResponse THEN StatusMessageOf(error)
             ELSE IF error.hasRequest
                  THEN "No response from server. Please check your internet connection"
                  ELSE error.message
        ELSE UnknownErrorMessage)

\* handleApiError: the error every catalog function throws from its catch
handleApiError(error) ==
    PlainError(
        IF error.isAxiosError
        THEN IF error.hasResponse THEN StatusMessageOf(error)
             ELSE IF error.hasRequest
                  THEN "No response from server. Please check your internet connection"
                  ELSE error.message
        ELSE UnknownErrorMessage)

\* a failed tmdbApi.get inside a catalog function: the interceptor rejects,
\* the function's catch hands the rejection to handleApiError
CatalogFailure(error) == handleApiError(ResponseInterceptor(error))

(***************************************************************************)
(* Upstream replies.                                                       *)
(***************************************************************************)
\* upstream page size (Math.ceil(n / 20))
UpstreamPageSize == 20

\* series ids the upstream serves in the store model
MaxItem == 2

\* result arrays of one upstream page, for item set S
RECURSIVE ListsUpTo(_, _)
ListsUpTo(S, n) ==
    IF n = 0 THEN {<<>>}
    ELSE LET shorter == ListsUpTo(S, n - 1)
         IN shorter \cup {Append(l, x) : l \in {m \in shorter : Len(m) = n - 1}, x \in S}

\* total_pages values of an upstream body (0: the field is missing)
TotalPages == {0, MaxPage}

\* a response body without a results field
InvalidBody ==
    [valid |-> FALSE, results |-> <<>>, page |-> 0, total_pages |-> 0, total_results |-> 0]

\* a response body { results, page, total_pages, total_results }
Body(results, page, total_pages, total_results) ==
    [valid |-> TRUE, results |-> results, page |-> page,
     total_pages |-> total_pages, total_results |-> total_results]

\* response bodies of a TV list / search request for `page`
TVBodies(page) ==
    {InvalidBody} \cup
    {Body(r, page, t, t * UpstreamPageSize) :
        r \in ListsUpTo(1..MaxItem, MaxLen), t \in TotalPages}

\* what a catalog function (try { response.data } catch { handleApiError })
\* gives its caller for an upstream reply
CatalogReturn(reply) ==
    IF reply.ok THEN [ok |-> TRUE, data |-> reply.body, error |-> PlainError("")]
    ELSE [ok |-> FALSE, data |-> InvalidBody, error |-> CatalogFailure(reply.error)]

\* the replies of the upstream to one request: one of the success bodies, or
\* one of the errors
NoError == PlainError("")

Replies(bodies, errors) ==
    {[ok |-> TRUE, body |-> b, error |-> NoError] : b \in bodies}
        \cup {[ok |-> FALSE, body |-> InvalidBody, error |-> e] : e \in errors}

\* the transport failure of the behaviours that do not look at its class
TransportErrors == {NoResponseError}

(***************************************************************************)
(* Clock.                                                                  *)
(***************************************************************************)
\* Cache expiration time (30 minutes)
CACHE_EXPIRATION == 30 * 60 * 1000

\* the instants the model observes: around each multiple of the window
Instants ==
    {0} \cup {k * CACHE_EXPIRATION + d : k \in 1..MaxEpochs, d \in {-1, 0}}

(***************************************************************************)
(* Suspended store actions and the step record.                            *)
(***************************************************************************)
\* selectedGenreId: number | null
NoGenre == -1

\* a store action: entry is the action invoked, op the action whose body runs,
\* upstream the catalog function it awaits
NoCall ==
    [id |-> 0, store |-> "none", entry |-> "none", op |-> "none", upstream |-> "none",
     category |-> "", query |-> "", page |-> 0, pageSize |-> 0,
     timeWindow |-> "", genreId |-> NoGenre, sortBy |-> "", isDescending |-> FALSE,
     cacheKey |-> ""]

\* the step record: ev is what the step did, call the action it belongs to,
\* age the age of the cache entry looked up (-1: none), body the upstream body
\* or cache entry the step used, cause the transport error of a failure
Step(ev, call, age, body, cause) ==
    [ev |-> ev, call |-> call, age |-> age, body |-> body, cause |-> cause]

NoStep == Step("init", NoCall, -1, InvalidBody, NoError)

\* a cache entry seen as a body
CachedBody(data) == Body(data, 0, 0, 0)

(***************************************************************************)
(* TV series store.                                                        *)
(***************************************************************************)
Categories == {"popular", "top_rated", "on_air"}

\* query strings given to the search actions
Queries == {"", " ", "a"}

TVInit ==
    [series |-> <<>>, loading |-> FALSE, error |-> Null, currentPage |-> 1,
     totalPages |-> 1, searchQuery |-> "", currentCategory |-> "popular",
     seriesCache |-> EmptyMap]

\* the catalog function fetchSeries switches to
SeriesFunction(category) ==
    CASE category = "popular" -> "getPopularTVSeries"
      [] category = "top_rated" -> "getTopRatedTVSeries"
      [] category = "on_air" -> "getOnAirTVSeries"

\* `${category}_${page}`
SeriesKey(category, page) == category \o "_" \o ToString(page)

\* `search_${query}_${page}`
SeriesSearchKey(query, page) == "search_" \o query \o "_" \o ToString(page)

\* the expiry test with the comparison turned around (a faulty variant)
SeriesCacheFresh_inclusive(cache, key, t) ==
    /\ key \in DOMAIN cache
    /\ t - cache[key].timestamp <= CACHE_EXPIRATION

\* cachedData && Date.now() - cachedData.timestamp < CACHE_EXPIRATION
SeriesCacheFresh(cache, key, t) ==
    /\ key \in DOMAIN cache
    /\ t - cache[key].timestamp < CACHE_EXPIRATION

\* age of the entry under key at time t (-1 when there is none)
SeriesAge(cache, key, t) ==
    IF key \in DOMAIN cache THEN t - cache[key].timestamp ELSE -1

\* fetchSeries that empties the list while it loads (a faulty variant)
fetchSeries_clearing(entry, query, category, page) ==
    LET s1 == [tv EXCEPT !.loading = TRUE, !.error = Null, !.series = <<>>,
                         !.currentCategory = category]
        key == SeriesKey(category, page)
        call == [NoCall EXCEPT !.id = started + 1, !.store = "tv",
                               !.entry = entry, !.op = "fetchSeries",
                               !.upstream = SeriesFunction(category),
                               !.category = category, !.query = query,
                               !.page = page, !.cacheKey = key]
        age == SeriesAge(s1.seriesCache, key, now)
    IN  /\ started' = started + 1
        /\ IF SeriesCacheFresh(s1.seriesCache, key, now)
           THEN /\ tv' = [s1 EXCEPT
                            !.series = s1.seriesCache[key].data,
                            !.currentPage = page,
                            !.totalPages =
                                CeilDiv(Len(s1.seriesCache[key].data), UpstreamPageSize),
                            !.loading = FALSE,
                            !.searchQuery = ""]
                /\ calls' = calls
                /\ last' = Step("hit", [call EXCEPT !.upstream = "none"], age,
                                CachedBody(s1.seriesCache[key].data), NoError)
           ELSE /\ tv' = s1
                /\ calls' = calls \cup {call}
                /\ last' = Step("request", call, age, InvalidBody, NoError)
        /\ UNCHANGED <<mv, now, meta, pop, otherVars>>

\* fetchSeries up to its await: serve from seriesCache or suspend
fetchSeries(entry, query, category, page) ==
    LET s1 == [tv EXCEPT !.loading = TRUE, !.error = Null,
                         !.currentCategory = category]
        key == SeriesKey(category, page)
        call == [NoCall EXCEPT !.id = started + 1, !.store = "tv",
                               !.entry = entry, !.op = "fetchSeries",
                               !.upstream = SeriesFunction(category),
                               !.category = category, !.query = query,
                               !.page = page, !.cacheKey = key]
        age == SeriesAge(s1.seriesCache, key, now)
    IN  /\ started' = started + 1
        /\ IF SeriesCacheFresh(s1.seriesCache, key, now)
           THEN /\ tv' = [s1 EXCEPT
                            !.series = s1.seriesCache[key].data,
                            !.currentPage = page,
                            !.totalPages =
                                CeilDiv(Len(s1.seriesCache[key].data), UpstreamPageSize),
                            !.loading = FALSE,
                            !.searchQuery = ""]
                /\ calls' = calls
                /\ last' = Step("hit", [call EXCEPT !.upstream = "none"], age,
                                CachedBody(s1.seriesCache[key].data), NoError)
           ELSE /\ tv' = s1
                /\ calls' = calls \cup {call}
                /\ last' = Step("request", call, age, InvalidBody, NoError)
        /\ UNCHANGED <<mv, now, meta, pop, otherVars>>

FetchSeriesStart ==
    /\ started < MaxCalls
    /\ \E category \in Categories, page \in 1..MaxPage :
          fetchSeries("fetchSeries", "", category, page)

\* a resolution that drops the response of a superseded request (a faulty variant)
SeriesResolved_latestOnly(c, reply, validMessage, clearsQuery) ==
    LET r == CatalogReturn(reply)
    IN  /\ IF r.ok /\ r.data.valid
           THEN /\ tv' = IF c.id # started THEN [tv EXCEPT !.loading = FALSE]
                         ELSE
                         [tv EXCEPT
                            !.series = r.data.results,
                            !.currentPage = OrOne(r.data.page),
                            !.totalPages = OrOne(r.data.total_pages),
                            !.loading = FALSE,
                            !.searchQuery = IF clearsQuery THEN "" ELSE @,
                            !.seriesCache =
                                Put(tv.seriesCache, c.cacheKey,
                                    [data |-> r.data.results, timestamp |-> now])]
                /\ last' = Step("success", c, SeriesAge(tv.seriesCache, c.cacheKey, now),
                                r.data, NoError)
           ELSE /\ tv' = [tv EXCEPT
                            !.error = IF r.ok THEN validMessage ELSE r.error.message,
                            !.loading = FALSE]
                /\ last' = Step("failure", c, -1, InvalidBody, reply.error)
        /\ calls' = calls \ {c}
        /\ UNCHANGED <<mv, started, now, meta, pop, otherVars>>

\* the code after the await of fetchSeries / searchForSeries: validate, then
\* write the list, the pagination and the cache entry, or record the error
SeriesResolved(c, reply, validMessage, clearsQuery) ==
    LET r == CatalogReturn(reply)
    IN  /\ IF r.ok /\ r.data.valid
           THEN /\ tv' = [tv EXCEPT
                            !.series = r.data.results,
                            !.currentPage = OrOne(r.data.page),
                            !.totalPages = OrOne(r.data.total_pages),
                            !.loading = FALSE,
                            !.searchQuery = IF clearsQuery THEN "" ELSE @,
                            !.seriesCache =
                                Put(tv.seriesCache, c.cacheKey,
                                    [data |-> r.data.results, timestamp |-> now])]
                /\ last' = Step("success", c, SeriesAge(tv.seriesCache, c.cacheKey, now),
                                r.data, NoError)
           ELSE /\ tv' = [tv EXCEPT
                            !.error = IF r.ok THEN validMessage ELSE r.error.message,
                            !.loading = FALSE]
                /\ last' = Step("failure", c, -1, InvalidBody, reply.error)
        /\ calls' = calls \ {c}
        /\ UNCHANGED <<mv, started, now, meta, pop, otherVars>>

\* fetchSeries after its await: the catalog function returned or threw
FetchSeriesSettle(bodies, errors) ==
    \E c \in calls : \E reply \in Replies(bodies[c.page], errors) :
        /\ c.store = "tv" /\ c.op = "fetchSeries"
        /\ SeriesResolved(c, reply,
                          "Failed to fetch " \o c.category \o " TV series data", TRUE)

FetchSeriesResolve ==
    FetchSeriesSettle([page \in 1..MaxPage |-> TVBodies(page)], TransportErrors)

\* searchForSeries up to its await
SearchForSeriesStart ==
    /\ started < MaxCalls
    /\ \E query \in Queries, page \in 1..MaxPage :
          IF Trim(query) = ""
          THEN fetchSeries("searchForSeries", query, "popular", 1)
          ELSE LET s1 == [tv EXCEPT !.loading = TRUE, !.error = Null,
                                    !.searchQuery = query]
                   key == SeriesSearchKey(query, page)
                   call == [NoCall EXCEPT !.id = started + 1, !.store = "tv",
                                          !.entry = "searchForSeries",
                                          !.op = "searchForSeries",
                                          !.upstream = "searchTVSeries",
                                          !.query = query, !.page = page,
                                          !.cacheKey = key]
                   age == SeriesAge(s1.seriesCache, key, now)
               IN  /\ started' = started + 1
                   /\ IF SeriesCacheFresh(s1.seriesCache, key, now)
                      THEN /\ tv' = [s1 EXCEPT
                                       !.series = s1.seriesCache[key].data,
                                       !.currentPage = page,
                                       !.totalPages =
                                           CeilDiv(Len(s1.seriesCache[key].data),
                                                   UpstreamPageSize),
                                       !.loading = FALSE]
                           /\ calls' = calls
                           /\ last' = Step("hit", [call EXCEPT !.upstream = "none"], age,
                                           CachedBody(s1.seriesCache[key].data), NoError)
                      ELSE /\ tv' = s1
                           /\ calls' = calls \cup {call}
                           /\ last' = Step("request", call, age, InvalidBody, NoError)
                   /\ UNCHANGED <<mv, now, meta, pop, otherVars>>

\* searchForSeries after its await
SearchForSeriesSettle(bodies, errors) ==
    \E c \in calls : \E reply \in Replies(bodies[c.page], errors) :
        /\ c.store = "tv" /\ c.op = "searchForSeries"
        /\ SeriesResolved(c, reply, "Failed to search TV series", FALSE)

SearchForSeriesResolve ==
    SearchForSeriesSettle([page \in 1..MaxPage |-> TVBodies(page)], TransportErrors)

\* clearCache of the TV series store
ClearSeriesCache ==
    /\ tv.seriesCache # EmptyMap
    /\ tv' = [tv EXCEPT !.seriesCache = EmptyMap]
    /\ last' = Step("clearCache", [NoCall EXCEPT !.store = "tv"], -1, InvalidBody, NoError)
    /\ UNCHANGED <<mv, calls, started, now, meta, pop, otherVars>>

\* time passes between two steps of the event loop
Tick ==
    /\ \E t \in Instants : t > now /\ now' = t
    /\ last' = Step("tick", NoCall, -1, InvalidBody, NoError)
    /\ UNCHANGED <<tv, mv, calls, started, meta, pop, otherVars>>

(***************************************************************************)
(* Movie items and the catalog functions of the movie store.               *)
(***************************************************************************)
\* genre ids the items carry (Action, Comedy)
ItemGenres == {28, 35}

\* genre ids given to setSelectedGenre and fetchMoviesByGenre
GenreIds == {28}

\* release_date values ("" when the upstream has none)
ReleaseDates == <<"2023-01-01", "2022-06-15", "", "2010-03-05">>

\* the MovieResult with id i
MovieOf(i) ==
    [id |-> i,
     genre_ids |-> IF i % 2 = 1 THEN {28} ELSE {35},
     release_date |-> ReleaseDates[((i - 1) % Len(ReleaseDates)) + 1]]

MovieItems == {MovieOf(i) : i \in 1..MaxItem}

\* response bodies of a movie list / search / discover request for `page`
MovieBodies(page) ==
    {InvalidBody} \cup
    {Body(r, page, t, t * UpstreamPageSize) :
        r \in ListsUpTo(MovieItems, MaxLen), t \in TotalPages}

\* [...a, ...b, ...] over the results of a sequence of bodies
RECURSIVE ConcatResults(_)
ConcatResults(bodies) ==
    IF bodies = <<>> THEN <<>>
    ELSE Head(bodies).results \o ConcatResults(Tail(bodies))

\* Array.prototype.slice(0, n)
Slice0(s, n) == SubSeq(s, 1, IF n < Len(s) THEN n ELSE Len(s))

\* the page count rounded the other way (a faulty variant)
PagesNeeded_floor(resultsPerPage) == (resultsPerPage \div UpstreamPageSize) + 1

\* Math.ceil(resultsPerPage / 20)
PagesNeeded(resultsPerPage) == CeilDiv(resultsPerPage, UpstreamPageSize)

\* the upstream pages getPopularMovies requests: page + i for i < pagesNeeded
PopularPages(page, resultsPerPage) ==
    [i \in 1..PagesNeeded(resultsPerPage) |-> page + (i - 1)]

\* the error a catalog function throws when its own code throws a TypeError
TypeErrorFailure == handleApiError(PlainError("TypeError"))

\* getPopularMovies once Promise.all has settled: replies[i] answers the i-th
\* request; a rejected request rejects the whole call
getPopularMovies(page, resultsPerPage, replies) ==
    IF \E i \in DOMAIN replies : ~replies[i].ok
    THEN LET i == CHOOSE k \in DOMAIN replies : ~replies[k].ok
         IN  [ok |-> FALSE, data |-> InvalidBody,
              error |-> CatalogFailure(replies[i].error)]
    ELSE IF replies = <<>> \/ \E i \in DOMAIN replies : ~replies[i].body.valid
    THEN [ok |-> FALSE, data |-> InvalidBody, error |-> TypeErrorFailure]
    ELSE LET bodies == [i \in DOMAIN replies |-> replies[i].body]
         IN  [ok |-> TRUE,
              data |-> Body(Slice0(ConcatResults(bodies), resultsPerPage), page,
                            bodies[1].total_pages, bodies[1].total_results),
              error |-> NoError]

\* getTrendingMovies once its three page requests have settled
getTrendingMovies(replies) ==
    IF \E i \in DOMAIN replies : ~replies[i].ok
    THEN LET i == CHOOSE k \in DOMAIN replies : ~replies[k].ok
         IN  [ok |-> FALSE, data |-> InvalidBody, error |-> CatalogFailure(replies[i].error)]
    ELSE IF \E i \in DOMAIN replies : ~replies[i].body.valid
    THEN [ok |-> FALSE, data |-> InvalidBody, error |-> TypeErrorFailure]
    ELSE LET bodies == [i \in DOMAIN replies |-> replies[i].body]
         IN  [ok |-> TRUE,
              data |-> Body(ConcatResults(bodies), 1, bodies[1].total_pages,
                            Len(ConcatResults(bodies))),
              error |-> NoError]

\* the settled replies of n parallel requests: all answered, or one rejected
\* first (Promise.all rejects with it)
JoinedReplies(n, bodies, errors) ==
    {r \in [1..n -> Replies(bodies, errors)] :
        \/ \A i \in 1..n : r[i].ok
        \/ /\ ~r[1].ok
           /\ \A i \in 2..n : r[i] = r[1]}

(***************************************************************************)
(* Release year of a search result.                                        *)
(***************************************************************************)
Digits == <<"0", "1", "2", "3", "4", "5", "6", "7", "8", "9">>

DigitValue(ch) == (CHOOSE i \in 1..10 : Digits[i] = ch) - 1

\* the decimal number written by the digit string s
RECURSIVE Number(_)
Number(s) ==
    IF Len(s) = 0 THEN 0
    ELSE 10 * Number(SubSeq(s, 1, Len(s) - 1)) + DigitValue(SubSeq(s, Len(s), Len(s)))

\* time zones of the browser, in minutes east of UTC
TimeZoneOffsets == {-300, 0, 60}

\* new Date('YYYY-MM-DD').getFullYear(): the string is read as midnight UTC,
\* the year is the one of the local calendar date at that instant
FullYear(date, tz) ==
    LET y == Number(SubSeq(date, 1, 4))
        m == Number(SubSeq(date, 6, 7))
        d == Number(SubSeq(date, 9, 10))
    IN  IF tz < 0 /\ m = 1 /\ d = 1 THEN y - 1 ELSE y

\* a.release_date ? new Date(a.release_date).getFullYear() : 0
SortYear(movie, tz) ==
    IF movie.release_date = "" THEN 0 ELSE FullYear(movie.release_date, tz)

\* x put into a list already ordered by descending key, after its equals
RECURSIVE InsertByYear(_, _, _)
InsertByYear(x, sorted, tz) ==
    IF sorted = <<>> THEN <<x>>
    ELSE IF SortYear(Head(sorted), tz) - SortYear(x, tz) < 0
         THEN <<x>> \o sorted
         ELSE <<Head(sorted)>> \o InsertByYear(x, Tail(sorted), tz)

\* [...results].sort((a, b) => yearB - yearA): a stable sort
RECURSIVE SortByYear(_, _)
SortByYear(results, tz) ==
    IF results = <<>> THEN <<>>
    ELSE InsertByYear(results[Len(results)],
                      SortByYear(SubSeq(results, 1, Len(results) - 1), tz), tz)

(***************************************************************************)
(* Movie store.                                                            *)
(***************************************************************************)
\* fetchMovies: resultsPerPage = 40
DefaultPageSize == 40

TimeWindows == {"day", "week"}

SortFields == {"popularity", "rating", "release_date"}

MVInit ==
    [movies |-> <<>>, loading |-> FALSE, error |-> Null, currentPage |-> 1,
     totalPages |-> 1, searchQuery |-> "", selectedGenreId |-> NoGenre,
     trending |-> <<>>, movieCache |-> EmptyMap,
     searchParams |-> [query |-> "", resultsPerPage |-> DefaultPageSize,
                       includeAdult |-> FALSE]]

\* `movies-${page}-${resultsPerPage}`
MoviesKey(page, resultsPerPage) ==
    "movies-" \o ToString(page) \o "-" \o ToString(resultsPerPage)

\* `trending-${timeWindow}`
TrendingKey(timeWindow) == "trending-" \o timeWindow

\* `genre_${genreId}_${page}_${sortBy}_${isDescending}`
GenreKey(genreId, page, sortBy, isDescending) ==
    "genre_" \o ToString(genreId) \o "_" \o ToString(page) \o "_" \o sortBy
        \o "_" \o BoolStr(isDescending)

\* cached && cached.length > 0
MovieCacheHit(cache, key) == key \in DOMAIN cache /\ Len(cache[key]) > 0

\* get().selectedGenreId ? results.filter(m => m.genre_ids.includes(id)) : results
GenreFiltered(results, selectedGenreId) ==
    IF selectedGenreId # NoGenre /\ selectedGenreId # 0
    THEN SelectSeq(results, LAMBDA m : selectedGenreId \in m.genre_ids)
    ELSE results

\* age of the movieCache entry under key (-1 when there is none)
MovieAge(key) == IF key \in DOMAIN meta THEN now - meta[key].at ELSE -1

\* the catch block of the movie store actions
MovieFailed(message, fallback) ==
    [mv EXCEPT !.error = IF message # "" THEN message ELSE fallback,
               !.loading = FALSE]

\* fetchMovies(page, resultsPerPage) up to its await
fetchMovies(page, resultsPerPage) ==
    /\  LET key == MoviesKey(page, resultsPerPage)
            call == [NoCall EXCEPT !.id = started + 1, !.store = "movie",
                                   !.entry = "fetchMovies", !.op = "fetchMovies",
                                   !.upstream = "getPopularMovies",
                                   !.page = page, !.pageSize = resultsPerPage,
                                   !.cacheKey = key]
        IN  IF MovieCacheHit(mv.movieCache, key)
            THEN /\ mv' = [mv EXCEPT !.movies = mv.movieCache[key],
                                     !.currentPage = page,
                                     !.loading = FALSE,
                                     !.searchQuery = ""]
                 /\ calls' = calls
                 /\ last' = Step("hit", [call EXCEPT !.upstream = "none"], MovieAge(key),
                                 CachedBody(mv.movieCache[key]), NoError)
            ELSE /\ mv' = [mv EXCEPT !.loading = TRUE, !.error = Null]
                 /\ calls' = calls \cup {call}
                 /\ last' = Step("request", call, MovieAge(key), InvalidBody, NoError)
    /\ started' = started + 1
    /\ UNCHANGED <<tv, now, meta, pop>>

\* the pages call fetchMovies with the default page size
FetchMoviesStart ==
    /\ started < MaxCalls
    /\ \E page \in 1..MaxPage : fetchMovies(page, DefaultPageSize)
    /\ UNCHANGED otherVars

\* fetchMovies after its await
FetchMoviesSettle(bodies, errors) ==
    \E c \in calls :
        /\ c.store = "movie" /\ c.op = "fetchMovies"
        /\ \E replies \in JoinedReplies(PagesNeeded(c.pageSize), bodies[c.page], errors) :
            LET r == getPopularMovies(c.page, c.pageSize, replies)
                filtered == GenreFiltered(r.data.results, mv.selectedGenreId)
            IN  IF r.ok /\ r.data.valid
                THEN /\ mv' = [mv EXCEPT
                                 !.movies = filtered,
                                 !.currentPage = OrOne(r.data.page),
                                 !.totalPages = OrOne(r.data.total_pages),
                                 !.loading = FALSE,
                                 !.error = Null,
                                 !.searchQuery = "",
                                 !.movieCache = Put(mv.movieCache, c.cacheKey, filtered)]
                     /\ meta' = Put(meta, c.cacheKey,
                                    [filter |-> mv.selectedGenreId, at |-> now])
                     /\ last' = Step("success", c, -1, r.data, NoError)
                ELSE /\ mv' = MovieFailed(IF r.ok THEN "Invalid response from the movie API"
                                          ELSE r.error.message,
                                          "Failed to fetch movies. Please try again later.")
                     /\ meta' = meta
                     /\ last' = Step("failure", c, -1, InvalidBody, replies[1].error)
        /\ calls' = calls \ {c}
        /\ UNCHANGED <<tv, started, now, pop, otherVars>>

FetchMoviesResolve ==
    FetchMoviesSettle([page \in 1..MaxPage |-> MovieBodies(page)], TransportErrors)

\* searchMovies for resultsPerPage <= 50: one request, its body returned as is
searchMovies(reply) == CatalogReturn(reply)

\* searchForMovies(query, page, resultsPerPage) up to its await, called on
\* the store state s
searchForMovies(s, query, page, resultsPerPage) ==
    /\  LET call == [NoCall EXCEPT !.id = started + 1, !.store = "movie",
                                   !.entry = "searchForMovies",
                                   !.op = "searchForMovies",
                                   !.upstream = "searchMovies",
                                   !.query = query, !.page = page,
                                   !.pageSize = resultsPerPage]
        IN  /\ mv' = [s EXCEPT !.loading = TRUE, !.error = Null,
                               !.searchQuery = query,
                               !.searchParams = [@ EXCEPT !.query = query,
                                                          !.resultsPerPage = resultsPerPage]]
            /\ calls' = calls \cup {call}
            /\ last' = Step("request", call, -1, InvalidBody, NoError)
    /\ started' = started + 1
    /\ UNCHANGED <<tv, now, meta, pop>>

\* the pages call searchForMovies with the default page size
SearchForMoviesStart ==
    /\ started < MaxCalls
    /\ \E query \in Queries, page \in 1..MaxPage, size \in {DefaultPageSize} :
          searchForMovies(mv, query, page, size)
    /\ UNCHANGED otherVars

\* searchForMovies after its await, for the upstream bodies given
SearchForMoviesResolved(c, reply) ==
    LET r == searchMovies(reply)
    IN  /\ IF r.ok /\ r.data.valid
           THEN /\ \E tz \in TimeZoneOffsets :
                     mv' = [mv EXCEPT
                              !.movies = SortByYear(r.data.results, tz),
                              !.currentPage = OrOne(r.data.page),
                              !.totalPages = OrOne(r.data.total_pages),
                              !.loading = FALSE,
                              !.error = Null]
                /\ last' = Step("success", c, -1, r.data, NoError)
           ELSE /\ mv' = MovieFailed(IF r.ok THEN "Invalid response from the search API"
                                     ELSE r.error.message,
                                     "Failed to search movies. Please try again later.")
                /\ last' = Step("failure", c, -1, InvalidBody, reply.error)
        /\ calls' = calls \ {c}
        /\ UNCHANGED <<tv, started, now, meta, pop, otherVars>>

SearchForMoviesSettle(bodies, errors) ==
    \E c \in calls : \E reply \in Replies(bodies[c.page], errors) :
        /\ c.store = "movie" /\ c.op = "searchForMovies"
        /\ SearchForMoviesResolved(c, reply)

SearchForMoviesResolve ==
    SearchForMoviesSettle([page \in 1..MaxPage |-> MovieBodies(page)], TransportErrors)

\* fetchTrending(timeWindow) up to its await
fetchTrending(timeWindow) ==
    /\  LET key == TrendingKey(timeWindow)
            call == [NoCall EXCEPT !.id = started + 1, !.store = "movie",
                                   !.entry = "fetchTrending", !.op = "fetchTrending",
                                   !.upstream = "getTrendingMovies",
                                   !.timeWindow = timeWindow, !.page = 1,
                                   !.cacheKey = key]
        IN  IF MovieCacheHit(mv.movieCache, key)
            THEN /\ mv' = [mv EXCEPT !.trending = mv.movieCache[key],
                                     !.loading = FALSE]
                 /\ calls' = calls
                 /\ last' = Step("hit", [call EXCEPT !.upstream = "none"], MovieAge(key),
                                 CachedBody(mv.movieCache[key]), NoError)
            ELSE /\ mv' = [mv EXCEPT !.loading = TRUE, !.error = Null]
                 /\ calls' = calls \cup {call}
                 /\ last' = Step("request", call, MovieAge(key), InvalidBody, NoError)
    /\ started' = started + 1
    /\ UNCHANGED <<tv, now, meta, pop>>

\* the pages call fetchTrending
FetchTrendingStart ==
    /\ started < MaxCalls
    /\ \E timeWindow \in TimeWindows : fetchTrending(timeWindow)
    /\ UNCHANGED otherVars

\* pages of one getTrendingMovies call
TrendingPages == 3

\* fetchTrending after its await
FetchTrendingSettle(bodies, errors) ==
    \E c \in calls :
        /\ c.store = "movie" /\ c.op = "fetchTrending"
        /\ \E replies \in JoinedReplies(TrendingPages, bodies[c.page], errors) :
            LET r == getTrendingMovies(replies)
                filtered == GenreFiltered(r.data.results, mv.selectedGenreId)
            IN  IF r.ok /\ r.data.valid
                THEN /\ mv' = [mv EXCEPT
                                 !.trending = filtered,
                                 !.loading = FALSE,
                                 !.error = Null,
                                 !.movieCache = Put(mv.movieCache, c.cacheKey, filtered)]
                     /\ meta' = Put(meta, c.cacheKey,
                                    [filter |-> mv.selectedGenreId, at |-> now])
                     /\ last' = Step("success", c, -1, r.data, NoError)
                ELSE /\ mv' = MovieFailed(IF r.ok THEN "Invalid response from the trending API"
                                          ELSE r.error.message,
                                          "Failed to fetch trending movies. Please try again later.")
                     /\ meta' = meta
                     /\ last' = Step("failure", c, -1, InvalidBody, replies[1].error)
        /\ calls' = calls \ {c}
        /\ UNCHANGED <<tv, started, now, pop, otherVars>>

FetchTrendingResolve ==
    FetchTrendingSettle([page \in 1..MaxPage |-> MovieBodies(page)], TransportErrors)

\* discoverMoviesByGenre: one request, its body returned as is
discoverMoviesByGenre(reply) == CatalogReturn(reply)

\* fetchMoviesByGenre(genreId, page, sortBy, isDescending) up to its await
fetchMoviesByGenre(genreId, page, sortBy, isDescending) ==
    /\  LET key == GenreKey(genreId, page, sortBy, isDescending)
            call == [NoCall EXCEPT !.id = started + 1, !.store = "movie",
                                   !.entry = "fetchMoviesByGenre",
                                   !.op = "fetchMoviesByGenre",
                                   !.upstream = "discoverMoviesByGenre",
                                   !.genreId = genreId, !.page = page,
                                   !.sortBy = sortBy, !.isDescending = isDescending,
                                   !.cacheKey = key]
        IN  IF MovieCacheHit(mv.movieCache, key)
            THEN /\ mv' = [mv EXCEPT !.movies = mv.movieCache[key],
                                     !.currentPage = page,
                                     !.loading = FALSE,
                                     !.selectedGenreId = genreId]
                 /\ calls' = calls
                 /\ last' = Step("hit", [call EXCEPT !.upstream = "none"], MovieAge(key),
                                 CachedBody(mv.movieCache[key]), NoError)
            ELSE /\ mv' = [mv EXCEPT !.loading = TRUE, !.error = Null,
                                     !.selectedGenreId = genreId]
                 /\ calls' = calls \cup {call}
                 /\ last' = Step("request", call, MovieAge(key), InvalidBody, NoError)
    /\ started' = started + 1
    /\ UNCHANGED <<tv, now, meta, pop>>

\* the pages call fetchMoviesByGenre
FetchMoviesByGenreStart ==
    /\ started < MaxCalls
    /\ \E genreId \in GenreIds, page \in 1..MaxPage, sortBy \in SortFields,
          isDescending \in BOOLEAN :
          fetchMoviesByGenre(genreId, page, sortBy, isDescending)
    /\ UNCHANGED otherVars

\* fetchMoviesByGenre after its await
FetchMoviesByGenreSettle(bodies, errors) ==
    \E c \in calls : \E reply \in Replies(bodies[c.page], errors) :
        /\ c.store = "movie" /\ c.op = "fetchMoviesByGenre"
        /\ LET r == discoverMoviesByGenre(reply)
           IN  IF r.ok /\ r.data.valid
               THEN /\ mv' = [mv EXCEPT
                                !.movies = r.data.results,
                                !.currentPage = OrOne(r.data.page),
                                !.totalPages = OrOne(r.data.total_pages),
                                !.loading = FALSE,
                                !.error = Null,
                                !.searchQuery = "",
                                !.movieCache =
                                    Put(mv.movieCache, c.cacheKey, r.data.results)]
                    /\ meta' = Put(meta, c.cacheKey, [filter |-> NoGenre, at |-> now])
                    /\ last' = Step("success", c, -1, r.data, NoError)
               ELSE /\ mv' = MovieFailed(IF r.ok THEN "Invalid response from genre API"
                                         ELSE r.error.message,
                                         "Failed to fetch genre movies")
                    /\ meta' = meta
                    /\ last' = Step("failure", c, -1, InvalidBody, reply.error)
        /\ calls' = calls \ {c}
        /\ UNCHANGED <<tv, started, now, pop, otherVars>>

FetchMoviesByGenreResolve ==
    FetchMoviesByGenreSettle([page \in 1..MaxPage |-> MovieBodies(page)], TransportErrors)

\* setSelectedGenre
SetSelectedGenre ==
    /\ \E genreId \in GenreIds \cup {NoGenre} :
          /\ genreId # mv.selectedGenreId
          /\ mv' = [mv EXCEPT !.selectedGenreId = genreId]
    /\ last' = Step("setSelectedGenre", [NoCall EXCEPT !.store = "movie"], -1,
                    InvalidBody, NoError)
    /\ UNCHANGED <<tv, calls, started, now, meta, pop, otherVars>>

\* clearCache of the movie store
ClearMovieCache ==
    /\ mv.movieCache # EmptyMap
    /\ mv' = [mv EXCEPT !.movieCache = EmptyMap]
    /\ meta' = EmptyMap
    /\ last' = Step("clearCache", [NoCall EXCEPT !.store = "movie"], -1,
                    InvalidBody, NoError)
    /\ UNCHANGED <<tv, calls, started, now, pop, otherVars>>

\* the clock jumps one expiration window ahead
Expire ==
    /\ now + CACHE_EXPIRATION <= MaxEpochs * CACHE_EXPIRATION
    /\ now' = now + CACHE_EXPIRATION
    /\ last' = Step("tick", NoCall, -1, InvalidBody, NoError)
    /\ UNCHANGED <<tv, mv, calls, started, meta, pop, otherVars>>

(***************************************************************************)
(* getPopularMovies, request by request.                                   *)
(*                                                                         *)
(* pop is one invocation: the upstream pages it asked for, in the order of *)
(* the requests array, and the replies received so far.  The upstream      *)
(* holds a popular list of pop.catalog items in pages of 20; the totals it *)
(* reports may differ from one reply to the next.                          *)
(***************************************************************************)
\* results requested from getPopularMovies: 1..MaxResults
MaxResults == 45

\* videos in the list given to getBestTrailer: 0..MaxVideos
MaxVideos == 3

\* auth store operations invoked in one behaviour
MaxAuthOps == 4

\* movie ids given to addToFavorites / addToWatchlist: 1..MaxMovieId
MaxMovieId == 2

\* requests the account service receives in one behaviour
MaxRequests == 3

\* sizes of the upstream popular list
CatalogSizes == {45, 70}

\* a reply not yet received
Awaited == [ok |-> FALSE, body |-> InvalidBody, error |-> PlainError("awaited")]

PopIdle ==
    [pc |-> "idle", page |-> 0, n |-> 0, catalog |-> 0, requested |-> <<>>,
     replies |-> <<>>, out |-> [ok |-> FALSE, data |-> InvalidBody, error |-> NoError]]

\* the items of upstream page p of a list of `size` items
CatalogPage(size, p) ==
    LET first == (p - 1) * UpstreamPageSize
        count == IF size - first >= UpstreamPageSize THEN UpstreamPageSize
                 ELSE IF size > first THEN size - first ELSE 0
    IN  [j \in 1..count |-> first + j]

\* the for loop of getPopularMovies: one tmdbApi.get per needed page
PopularRequest ==
    /\ pop.pc = "called"
    /\ pop' = [pop EXCEPT
                 !.pc = "waiting",
                 !.requested = PopularPages(pop.page, pop.n),
                 !.replies = [i \in 1..PagesNeeded(pop.n) |-> Awaited]]
    /\ UNCHANGED <<tv, mv, calls, started, now, meta, last, otherVars>>

\* the upstream answers one of the outstanding requests, in any order
PopularReply ==
    /\ pop.pc = "waiting"
    /\ \E i \in DOMAIN pop.replies, extra \in {0, 1} :
          /\ pop.replies[i] = Awaited
          /\ LET p == pop.requested[i]
                 pages == CeilDiv(pop.catalog + extra, UpstreamPageSize)
             IN  pop' = [pop EXCEPT !.replies[i] =
                            [ok |-> TRUE,
                             body |-> Body(CatalogPage(pop.catalog, p), p, pages,
                                           pop.catalog + extra),
                             error |-> NoError]]
    /\ UNCHANGED <<tv, mv, calls, started, now, meta, last, otherVars>>

\* one of the outstanding requests fails
PopularReject ==
    /\ pop.pc = "waiting"
    /\ \E i \in DOMAIN pop.replies, e \in TransportErrors :
          /\ pop.replies[i] = Awaited
          /\ pop' = [pop EXCEPT
                       !.pc = "done",
                       !.replies[i] = [ok |-> FALSE, body |-> InvalidBody, error |-> e],
                       !.out = [ok |-> FALSE, data |-> InvalidBody,
                                error |-> CatalogFailure(e)]]
    /\ UNCHANGED <<tv, mv, calls, started, now, meta, last, otherVars>>

\* Promise.all resolved: combine, trim, return
PopularJoin ==
    /\ pop.pc = "waiting"
    /\ \A i \in DOMAIN pop.replies : pop.replies[i].ok
    /\ pop' = [pop EXCEPT !.pc = "done",
                          !.out = getPopularMovies(pop.page, pop.n, pop.replies)]
    /\ UNCHANGED <<tv, mv, calls, started, now, meta, last, otherVars>>

(***************************************************************************)
(* getTrendingMovies, attempt by attempt.                                  *)
(*                                                                         *)
(* trend is one invocation: for each of its three pages the withRetry      *)
(* call wrapping the request (attempts made, retries left, next delay),    *)
(* and what the caller has received.  The upstream holds a trending list   *)
(* of trend.catalog items in pages of 20.                                  *)
(***************************************************************************)
\* withRetry(..., 2, 1000): retries
TrendingRetries == 2

\* withRetry(..., 2, 1000): delay before the first retry, in milliseconds
RetryDelay == 1000

\* delay * 1.5
NextDelay(delay) == (delay * 3) \div 2

\* the retry test with the comparison turned around (a faulty variant)
RetriesExhausted_late(retries) == retries < 0

\* withRetry: if (retries <= 0) throw error
RetriesExhausted(retries) == retries <= 0

\* the failures of one attempt in the model
AttemptErrors == {NoResponseError, HttpError(429, "")}

\* the 200 bodies of trending page p: the page of the upstream list, or a
\* body without a results field
TrendingBodies(size, p) ==
    {InvalidBody,
     Body(CatalogPage(size, p), p, CeilDiv(size, UpstreamPageSize), size)}

\* the withRetry call of one page before its first attempt
NoAttempt ==
    [state |-> "none", attempts |-> 0, failures |-> 0, retries |-> 0, delay |-> 0,
     body |-> InvalidBody, error |-> NoError]

TrendIdle ==
    [pc |-> "idle", timeWindow |-> "", catalog |-> 0,
     page |-> [p \in 1..TrendingPages |-> NoAttempt],
     out |-> [ok |-> FALSE, data |-> InvalidBody, error |-> NoError]]

\* Promise.all([withRetry(...), withRetry(...), withRetry(...)]): the first
\* attempt of every page is issued
TrendingCall ==
    /\ trend.pc = "called"
    /\ trend' = [trend EXCEPT
                   !.pc = "waiting",
                   !.page = [p \in 1..TrendingPages |->
                               [NoAttempt EXCEPT !.state = "inflight", !.attempts = 1,
                                                 !.retries = TrendingRetries,
                                                 !.delay = RetryDelay]]]
    /\ UNCHANGED <<tv, mv, calls, started, now, meta, last, pop, trailer, auth, acct, ui>>

\* the request of one attempt is answered: withRetry returns the response
TrendingAttemptSucceeds ==
    /\ \E p \in 1..TrendingPages :
       \E body \in TrendingBodies(trend.catalog, p) :
          /\ trend.page[p].state = "inflight"
          /\ trend' = [trend EXCEPT
                         !.page[p].state = "fulfilled",
                         !.page[p].body = body]
    /\ UNCHANGED <<tv, mv, calls, started, now, meta, last, pop, trailer, auth, acct, ui>>

\* the request of one attempt fails: withRetry's catch.  With no retry left
\* it rethrows, which rejects Promise.all (once) and so the whole call;
\* otherwise it sleeps for the delay
TrendingAttemptFails ==
    /\ \E p \in 1..TrendingPages, e \in AttemptErrors :
          /\ trend.page[p].state = "inflight"
          /\ IF RetriesExhausted(trend.page[p].retries)
             THEN trend' = [trend EXCEPT
                              !.page[p].state = "rejected",
                              !.page[p].failures = @ + 1,
                              !.page[p].error = ResponseInterceptor(e),
                              !.pc = "done",
                              !.out = IF trend.pc = "done" THEN @
                                      ELSE [ok |-> FALSE, data |-> InvalidBody,
                                            error |-> CatalogFailure(e)]]
             ELSE trend' = [trend EXCEPT
                              !.page[p].state = "sleeping",
                              !.page[p].failures = @ + 1,
                              !.page[p].error = ResponseInterceptor(e)]
    /\ UNCHANGED <<tv, mv, calls, started, now, meta, last, pop, trailer, auth, acct, ui>>

\* the delay is over: withRetry(apiFn, retries - 1, delay * 1.5)
TrendingRetry ==
    /\ \E p \in 1..TrendingPages :
          /\ trend.page[p].state = "sleeping"
          /\ trend' = [trend EXCEPT
                         !.page[p].state = "inflight",
                         !.page[p].attempts = @ + 1,
                         !.page[p].retries = @ - 1,
                         !.page[p].delay = NextDelay(@)]
    /\ UNCHANGED <<tv, mv, calls, started, now, meta, last, pop, trailer, auth, acct, ui>>

\* Promise.all resolved: the three pages are combined and returned
TrendingJoin ==
    /\ trend.pc = "waiting"
    /\ \A p \in 1..TrendingPages : trend.page[p].state = "fulfilled"
    /\ trend' = [trend EXCEPT
                   !.pc = "done",
                   !.out = getTrendingMovies(
                               [p \in 1..TrendingPages |->
                                   [ok |-> TRUE, body |-> trend.page[p].body,
                                    error |-> NoError]])]
    /\ UNCHANGED <<tv, mv, calls, started, now, meta, last, pop, trailer, auth, acct, ui>>

(***************************************************************************)
(* getBestTrailer.                                                         *)
(*                                                                         *)
(* A video is { key, site, type, official }; in a list the key of a video  *)
(* is its position, so equal-looking entries stay distinguishable.         *)
(***************************************************************************)
\* const trailerTypes = ['Trailer', 'Teaser', 'Clip', 'Behind the Scenes']
trailerTypes == <<"Trailer", "Teaser", "Clip", "Behind the Scenes">>

\* video.type values the upstream serves
VideoTypes == {"Trailer", "Teaser", "Clip", "Behind the Scenes", "Featurette"}

\* video.site values the upstream serves
VideoSites == {"YouTube", "Vimeo"}

\* null as a returned video
NoVideo == [key |-> 0, site |-> "", type |-> "", official |-> FALSE]

\* the video lists of length n
VideoLists(n) ==
    {[i \in 1..n |-> [key |-> i, site |-> f[i][1], type |-> f[i][2], official |-> f[i][3]]] :
        f \in [1..n -> VideoSites \X VideoTypes \X BOOLEAN]}

\* videos.find(...) || null, over the positions whose entry passes the test
find(videos, matching) ==
    IF matching = {} THEN NoVideo
    ELSE videos[CHOOSE i \in matching : \A j \in matching : i <= j]

\* the for loop over trailerTypes from its k-th type on, and the line after it
RECURSIVE BestFromType(_, _)
BestFromType(videos, k) ==
    IF k > Len(trailerTypes)
    THEN find(videos, {i \in DOMAIN videos : videos[i].site = "YouTube"})
    ELSE LET type == trailerTypes[k]
             officialTrailer ==
                 find(videos, {i \in DOMAIN videos : /\ videos[i].type = type
                                                     /\ videos[i].site = "YouTube"
                                                     /\ videos[i].official = TRUE})
             anyTrailer ==
                 find(videos, {i \in DOMAIN videos : /\ videos[i].type = type
                                                     /\ videos[i].site = "YouTube"})
         IN  IF officialTrailer # NoVideo THEN officialTrailer
             ELSE IF anyTrailer # NoVideo THEN anyTrailer
             ELSE BestFromType(videos, k + 1)

\* the first official YouTube video of a preferred type, whatever the type
\* (a faulty variant)
getBestTrailer_officialFirst(present, videos) ==
    LET official == find(videos, {i \in DOMAIN videos :
                                     /\ \E k \in DOMAIN trailerTypes :
                                           videos[i].type = trailerTypes[k]
                                     /\ videos[i].site = "YouTube"
                                     /\ videos[i].official = TRUE})
    IN  IF official # NoVideo THEN official ELSE BestFromType(videos, 1)

\* getBestTrailer(videos); present = FALSE is a null / undefined argument
getBestTrailer(present, videos) ==
    IF ~present \/ Len(videos) = 0 THEN NoVideo
    ELSE BestFromType(videos, 1)

TrailerIdle == [pc |-> "idle", present |-> FALSE, videos |-> <<>>, out |-> NoVideo]

\* the call and its return
GetBestTrailer ==
    /\ trailer.pc = "called"
    /\ trailer' = [trailer EXCEPT
                     !.pc = "returned",
                     !.out = getBestTrailer(trailer.present, trailer.videos)]
    /\ UNCHANGED <<tv, mv, calls, started, now, meta, last, pop, trend, auth, acct, ui>>

(***************************************************************************)
(* Auth store (authStore.ts) and authService.logout.                       *)
(*                                                                         *)
(* auth.store is the zustand state, auth.storage the 'token' item of       *)
(* localStorage, auth.pending the requests awaited or fired and forgotten, *)
(* auth.done the operation that completed last: its name, its argument,    *)
(* the list it was applied to, the reply it consumed and what it returned. *)
(***************************************************************************)
\* undefined (a field the response body does not have)
Undefined == "<undefined>"

\* user: null
NoUser == [id |-> 0, watchlist |-> <<>>]

\* tokens the account service signs
AuthTokens == {"jwt1", "jwt2"}

\* the user objects of the account service's responses: _id, watchlist (and
\* fields the store does not read); there is no favorites field
ServerUsers == {[id |-> 1, watchlist |-> <<>>], [id |-> 1, watchlist |-> <<2>>]}

\* res.status(status).json({ message, token, user }), fields absent when
\* Undefined / NoUser
Reply(status, message, token, user) ==
    [kind |-> "json", status |-> status, message |-> message, token |-> token,
     user |-> user]

\* fetch rejects: no response
NetworkFailure ==
    [kind |-> "rejected", status |-> 0, message |-> Undefined, token |-> Undefined,
     user |-> NoUser]

\* a response whose body is not JSON (a proxy's or Express's own error page)
NotJson(status) ==
    [kind |-> "text", status |-> status, message |-> Undefined, token |-> Undefined,
     user |-> NoUser]

\* response.ok
Ok(reply) == reply.kind # "rejected" /\ reply.status >= 200 /\ reply.status <= 299

\* router.post('/login'): its responses
LoginReplies ==
    {Reply(200, Undefined, token, user) : token \in AuthTokens, user \in ServerUsers}
        \cup {Reply(400, "Email and password are required", Undefined, NoUser),
              Reply(401, "Invalid credentials", Undefined, NoUser),
              Reply(500, "Error logging in", Undefined, NoUser)}

\* router.post('/register'): its responses; 201 carries { user } only
RegisterReplies ==
    {Reply(201, Undefined, Undefined, user) : user \in ServerUsers}
        \cup {Reply(400, "Email and password are required", Undefined, NoUser),
              Reply(400, "User already exists", Undefined, NoUser),
              Reply(500, "Error creating user", Undefined, NoUser)}

\* GET /api/auth/verify-token: the router has no such route (Express answers
\* 404 with an HTML page); a server that has it answers { user } or 401
VerifyReplies ==
    {NotJson(404), Reply(401, "Invalid token", Undefined, NoUser)}
        \cup {Reply(200, Undefined, Undefined, user) : user \in ServerUsers}

\* what may come back instead of the service's own response
TransportReplies == {NetworkFailure, NotJson(502), Reply(503, Undefined, Undefined, NoUser)}

\* the message kept as it came (a faulty variant)
MessageOr_raw(message, fallback) == message

\* errorData.message || fallback
MessageOr(message, fallback) ==
    IF message = Undefined \/ message = "" THEN fallback ELSE message

\* the message of the Error that the try block of signIn / signUp throws for a
\* reply that is not OK: fetch's TypeError, response.json()'s SyntaxError, or
\* new Error(errorData.message || fallback)
ThrownMessage(reply, fallback) ==
    IF reply.kind = "rejected" THEN "Failed to fetch"
    ELSE IF reply.kind = "text" THEN "Unexpected token < in JSON at position 0"
    ELSE MessageOr(reply.message, fallback)

AuthStoreInit ==
    [user |-> NoUser, token |-> Null, isAuthenticated |-> FALSE, loading |-> FALSE,
     error |-> Null, favorites |-> <<>>, watchlist |-> <<>>]

NoReply == Reply(0, Undefined, Undefined, NoUser)

NoOp == [op |-> "", n |-> 0, id |-> 0, before |-> <<>>, reply |-> NoReply, success |-> FALSE]

AuthInit ==
    [store |-> AuthStoreInit, storage |-> Null, pending |-> {}, started |-> 0,
     done |-> NoOp]

\* a request sent by the n-th operation, with the bearer token it carries
\* (Null: none; the logout notification is sent after the token is removed)
Call(op, n, token) == [op |-> op, n |-> n, token |-> token]

\* an operation that has completed
Done(op, n, reply) == [NoOp EXCEPT !.op = op, !.n = n, !.reply = reply]

\* list.includes(id)
Includes(list, id) == \E i \in DOMAIN list : list[i] = id

\* list.filter(movieId => movieId !== id)
RECURSIVE Without(_, _)
Without(list, id) ==
    IF list = <<>> THEN <<>>
    ELSE IF list[1] = id THEN Without(Tail(list), id)
    ELSE <<list[1]>> \o Without(Tail(list), id)

\* state.favorites.includes(id) ? state.favorites.filter(...) : [...state.favorites, id]
Toggled(list, id) ==
    IF Includes(list, id) THEN Without(list, id) ELSE Append(list, id)

\* signIn / signUp up to the await of fetch: set({ loading: true, error: null })
SignStart(op) ==
    /\ auth.started < MaxAuthOps
    /\ auth' = [auth EXCEPT
                  !.started = @ + 1,
                  !.store.loading = TRUE,
                  !.store.error = Null,
                  !.pending = @ \cup {Call(op, auth.started + 1, Null)}]
    /\ UNCHANGED <<tv, mv, calls, started, now, meta, last, pop, trend, trailer, acct, ui>>

\* signIn / signUp from the response on (the two bodies differ in the URL and
\* the fallback message): throw on a reply that is not OK, else keep the token
\* in localStorage if there is one and set user, token, isAuthenticated,
\* favorites, watchlist; catch sets error; finally clears loading
SignSettle(op, replies, fallback) ==
    /\ \E call \in auth.pending, reply \in replies :
          /\ call.op = op
          /\ auth' = [auth EXCEPT
                        !.pending = @ \ {call},
                        !.done = Done(op, call.n, reply),
                        !.storage = IF Ok(reply) /\ reply.token # Undefined
                                    THEN reply.token ELSE @,
                        !.store = IF Ok(reply)
                                  THEN [@ EXCEPT !.user = reply.user,
                                                 !.token = reply.token,
                                                 !.isAuthenticated = TRUE,
                                                 !.favorites = <<>>,
                                                 !.watchlist = reply.user.watchlist,
                                                 !.loading = FALSE]
                                  ELSE [@ EXCEPT !.error = ThrownMessage(reply, fallback),
                                                 !.loading = FALSE]]
    /\ UNCHANGED <<tv, mv, calls, started, now, meta, last, pop, trend, trailer, acct, ui>>

SignInStart == SignStart("signIn")

SignInSettle == SignSettle("signIn", LoginReplies \cup TransportReplies, "Login failed")

SignUpStart == SignStart("signUp")

SignUpSettle ==
    SignSettle("signUp", RegisterReplies \cup TransportReplies, "Registration failed")

\* checkAuthentication up to the await of fetch; without a stored token it
\* returns false at once
checkAuthentication ==
    IF auth.storage = Null
    THEN auth' = [auth EXCEPT
                    !.started = @ + 1,
                    !.store.loading = FALSE,
                    !.done = Done("checkAuthentication", auth.started + 1, NoReply)]
    ELSE auth' = [auth EXCEPT
                    !.started = @ + 1,
                    !.store.loading = TRUE,
                    !.pending = @ \cup {Call("checkAuthentication",
                                              auth.started + 1, auth.storage)}]

\* a component calls checkAuthentication
CheckAuthenticationStart ==
    /\ auth.started < MaxAuthOps
    /\ checkAuthentication
    /\ UNCHANGED <<tv, mv, calls, started, now, meta, last, pop, trend, trailer, acct, ui>>

\* checkAuthentication from the response on
CheckAuthenticationSettle ==
    /\ \E call \in auth.pending, reply \in VerifyReplies \cup TransportReplies :
          /\ call.op = "checkAuthentication"
          /\ auth' = [auth EXCEPT
                        !.pending = @ \ {call},
                        !.done = [Done("checkAuthentication", call.n, reply) EXCEPT
                                     !.success = Ok(reply) /\ reply.kind = "json"
                                                     /\ reply.user # NoUser],
                        !.storage = IF reply.kind # "rejected" /\ ~Ok(reply)
                                    THEN Null ELSE @,
                        !.store = IF Ok(reply) /\ reply.kind = "json" /\ reply.user # NoUser
                                  THEN [@ EXCEPT !.user = reply.user,
                                                 !.token = call.token,
                                                 !.isAuthenticated = TRUE,
                                                 !.favorites = <<>>,
                                                 !.watchlist = reply.user.watchlist,
                                                 !.loading = FALSE]
                                  ELSE [@ EXCEPT !.loading = FALSE]]
    /\ UNCHANGED <<tv, mv, calls, started, now, meta, last, pop, trend, trailer, acct, ui>>

\* the reset of signOut with the lists left alone (a faulty variant)
SignedOut_keepLists(store) ==
    [store EXCEPT !.user = NoUser, !.token = Null, !.isAuthenticated = FALSE,
                  !.error = Null, !.loading = FALSE]

\* the store after signOut: loading and error set, the reset, loading cleared
SignedOut(store) ==
    [store EXCEPT !.user = NoUser, !.token = Null, !.isAuthenticated = FALSE,
                  !.favorites = <<>>, !.watchlist = <<>>,
                  !.error = Null, !.loading = FALSE]

\* signOut: it has no await, so it runs to its end in one step
SignOut ==
    /\ auth.started < MaxAuthOps
    /\ auth' = [auth EXCEPT
                  !.started = @ + 1,
                  !.storage = Null,
                  !.store = SignedOut(@),
                  !.done = [Done("signOut", auth.started + 1, NoReply) EXCEPT
                               !.success = TRUE]]
    /\ UNCHANGED <<tv, mv, calls, started, now, meta, last, pop, trend, trailer, acct, ui>>

\* authService.logout: the token is removed, POST /auth/logout is sent and
\* not awaited, { success: true } is returned
Logout ==
    /\ auth.started < MaxAuthOps
    /\ auth' = [auth EXCEPT
                  !.started = @ + 1,
                  !.storage = Null,
                  !.pending = @ \cup {Call("logout", auth.started + 1, Null)},
                  !.done = [Done("logout", auth.started + 1, NoReply) EXCEPT
                               !.success = TRUE]]
    /\ UNCHANGED <<tv, mv, calls, started, now, meta, last, pop, trend, trailer, acct, ui>>

\* the logout notification is answered or fails; a failure is logged by the
\* .catch handler
LogoutNotified ==
    /\ \E call \in auth.pending,
          reply \in {Reply(200, "Logged out successfully", Undefined, NoUser)}
                        \cup TransportReplies :
          /\ call.op = "logout"
          /\ auth' = [auth EXCEPT !.pending = @ \ {call}]
    /\ UNCHANGED <<tv, mv, calls, started, now, meta, last, pop, trend, trailer, acct, ui>>

\* addToFavorites(id); the sync request is sent when logged in and not awaited
AddToFavorites ==
    /\ auth.started < MaxAuthOps
    /\ \E id \in 1..MaxMovieId :
          auth' = [auth EXCEPT
                     !.started = @ + 1,
                     !.store.favorites = Toggled(@, id),
                     !.pending = IF auth.store.isAuthenticated
                                      /\ auth.store.token \notin {Null, Undefined}
                                 THEN @ \cup {Call("update-favorites", auth.started + 1,
                                                    auth.store.token)}
                                 ELSE @,
                     !.done = [Done("addToFavorites", auth.started + 1, NoReply) EXCEPT
                                  !.id = id, !.before = auth.store.favorites]]
    /\ UNCHANGED <<tv, mv, calls, started, now, meta, last, pop, trend, trailer, acct, ui>>

\* addToWatchlist(id)
AddToWatchlist ==
    /\ auth.started < MaxAuthOps
    /\ \E id \in 1..MaxMovieId :
          auth' = [auth EXCEPT
                     !.started = @ + 1,
                     !.store.watchlist = Toggled(@, id),
                     !.pending = IF auth.store.isAuthenticated
                                      /\ auth.store.token \notin {Null, Undefined}
                                 THEN @ \cup {Call("update-watchlist", auth.started + 1,
                                                    auth.store.token)}
                                 ELSE @,
                     !.done = [Done("addToWatchlist", auth.started + 1, NoReply) EXCEPT
                                  !.id = id, !.before = auth.store.watchlist]]
    /\ UNCHANGED <<tv, mv, calls, started, now, meta, last, pop, trend, trailer, acct, ui>>

\* a favorites / watchlist sync request is answered or fails (.catch logs it)
SyncSettled ==
    /\ \E call \in auth.pending :
          /\ call.op \in {"update-favorites", "update-watchlist"}
          /\ auth' = [auth EXCEPT !.pending = @ \ {call}]
    /\ UNCHANGED <<tv, mv, calls, started, now, meta, last, pop, trend, trailer, acct, ui>>

(***************************************************************************)
(* Account service: Express routes and controllers, Netlify functions.     *)
(*                                                                         *)
(* acct.users is the users collection in insertion order (a user's id is   *)
(* its position), acct.index whether the collection has the unique index   *)
(* on email, acct.now the server clock in milliseconds, acct.tokens the    *)
(* tokens signed so far, acct.inflight the registrations between their     *)
(* existence check and their save (numbered in order of arrival), acct.res *)
(* the last response together with the request it answers.                 *)
(*                                                                         *)
(* A token is its payload (sub, purpose, iat, exp in seconds), whether its *)
(* signature verifies under JWT_SECRET, and, for the record, who signed it *)
(* and when (at, in milliseconds).                                         *)
(***************************************************************************)
Emails == {"a@x.com", "b@x.com"}

Passwords == {"pw1", "pw2"}

\* bcrypt.hash(password, rounds)
Hash(password) == "$2b$" \o password

\* bcrypt.compare(password, hash)
Compare(password, hash) == hash = Hash(password)

\* the handlers that sign session tokens: the mounted Express routes, the
\* controllers of the same name, the Netlify functions
LoginPaths == {"route", "controller", "netlify"}

\* the handlers that create users
RegisterPaths == {"route", "controller", "netlify"}

\* expiresIn of the session token of a handler, in seconds: '30m' or '7d'
SessionExpiresIn(path) == IF path = "netlify" THEN 7 * 24 * 60 * 60 ELSE 30 * 60

\* expiresIn: '1h' of the reset token, in seconds
ResetExpiresIn == 60 * 60

\* instants of the server clock, in milliseconds
AcctInstants == {0, 999, 1799000, 1800499, 1801999, 3599000, 3601999}

NoToken ==
    [sub |-> 0, purpose |-> Undefined, iat |-> 0, exp |-> 0, signed |-> FALSE,
     by |-> "", at |-> 0]

\* jwt.sign(payload, secret, { expiresIn }): iat is the clock in whole seconds
sign(sub, purpose, expiresIn, by, clock) ==
    [sub |-> sub, purpose |-> purpose, iat |-> clock \div 1000,
     exp |-> (clock \div 1000) + expiresIn, signed |-> TRUE, by |-> by, at |-> clock]

\* jwt.verify that does not look at exp (a faulty variant)
verify_unexpiring(token, clock) ==
    IF ~token.signed THEN "JsonWebTokenError" ELSE "ok"

\* jwt.verify(token, secret): the signature first, then exp against the clock
\* in whole seconds
verify(token, clock) ==
    IF ~token.signed THEN "JsonWebTokenError"
    ELSE IF clock \div 1000 >= token.exp THEN "TokenExpiredError"
    ELSE "ok"

\* tokens a client can make from a token it holds without the secret:
\* the payload rewritten, the signature no longer matching
Forged(token) ==
    {[token EXCEPT !.signed = FALSE, !.purpose = purpose, !.exp = exp] :
        purpose \in {token.purpose, "password_reset"},
        exp \in {token.exp, token.exp + ResetExpiresIn}}

\* the tokens a request can carry
Presentable == acct.tokens \cup UNION {Forged(t) : t \in acct.tokens}

\* a response: status, the fields of its JSON body, its message
Response(status, fields, message) ==
    [status |-> status, fields |-> fields, message |-> message]

NoRequest ==
    [n |-> 0, endpoint |-> "", path |-> "", email |-> "", password |-> "",
     token |-> NoToken]

NoRes ==
    [n |-> 0, at |-> 0, req |-> NoRequest, status |-> 0, fields |-> {}, message |-> ""]

\* the response to request req, the n-th the service answers, at clock
Answer(n, clock, req, response) ==
    [n |-> n, at |-> clock, req |-> req, status |-> response.status,
     fields |-> response.fields, message |-> response.message]

AcctIdle ==
    [users |-> <<>>, index |-> FALSE, now |-> 0, tokens |-> {}, inflight |-> {},
     served |-> 0, res |-> NoRes]

\* User.findOne({ email }): the position of the first user with that email, 0
\* when there is none
findOne(users, email) ==
    IF \E i \in DOMAIN users : users[i].email = email
    THEN CHOOSE i \in DOMAIN users :
             /\ users[i].email = email
             /\ \A j \in DOMAIN users : users[j].email = email => i <= j
    ELSE 0

\* requestPasswordReset: its response and the token it signs
requestPasswordReset(users, email, clock) ==
    IF email = ""
    THEN [response |-> Response(400, {"message"}, "Email is required"), token |-> NoToken]
    ELSE IF findOne(users, email) = 0
    THEN [response |->
              Response(200, {"message"},
                       "If your email exists in our system, you will receive a reset link"),
          token |-> NoToken]
    ELSE [response |->
              Response(200, {"message", "resetToken", "resetUrl"},
                       "If your email exists in our system, you will receive a reset link"),
          token |-> sign(findOne(users, email), "password_reset", ResetExpiresIn,
                         "requestPasswordReset", clock)]

\* resetPassword: its response and the users collection it leaves
resetPassword(users, token, newPassword, clock) ==
    IF token = NoToken \/ newPassword = ""
    THEN [response |-> Response(400, {"message"}, "Token and new password are required"),
          users |-> users]
    ELSE IF verify(token, clock) # "ok"
    THEN [response |-> Response(400, {"message"}, "Invalid or expired token"),
          users |-> users]
    ELSE IF token.purpose # "password_reset"
    THEN [response |-> Response(400, {"message"}, "Invalid reset token"), users |-> users]
    ELSE IF token.sub \notin DOMAIN users
    THEN [response |-> Response(404, {"message"}, "User not found"), users |-> users]
    ELSE [response |-> Response(200, {"message"}, "Password reset successful"),
          users |-> [users EXCEPT ![token.sub].password = Hash(newPassword)]]

\* authenticateToken: the status it answers with, 200 standing for next()
authenticateToken(token, clock) ==
    IF token = NoToken THEN 401
    ELSE IF verify(token, clock) # "ok" THEN 403
    ELSE 200

\* POST /auth/forgot-password
RequestPasswordReset ==
    /\ acct.served + Cardinality(acct.inflight) < MaxRequests
    /\ \E email \in Emails \cup {""} :
          LET out == requestPasswordReset(acct.users, email, acct.now)
              req == [NoRequest EXCEPT !.endpoint = "forgot-password", !.email = email]
          IN  acct' = [acct EXCEPT
                         !.served = @ + 1,
                         !.tokens = IF out.token = NoToken THEN @ ELSE @ \cup {out.token},
                         !.res = Answer(acct.served + 1, acct.now, req, out.response)]
    /\ UNCHANGED <<tv, mv, calls, started, now, meta, last, pop, trend, trailer, auth, ui>>

\* POST /auth/reset-password
ResetPassword ==
    /\ acct.served + Cardinality(acct.inflight) < MaxRequests
    /\ \E token \in Presentable \cup {NoToken}, newPassword \in {"pw2", ""} :
          LET out == resetPassword(acct.users, token, newPassword, acct.now)
              req == [NoRequest EXCEPT !.endpoint = "reset-password", !.token = token,
                                       !.password = newPassword]
          IN  acct' = [acct EXCEPT
                         !.served = @ + 1,
                         !.users = out.users,
                         !.res = Answer(acct.served + 1, acct.now, req, out.response)]
    /\ UNCHANGED <<tv, mv, calls, started, now, meta, last, pop, trend, trailer, auth, ui>>

\* a login handler: 401 unless the email has a user whose hash matches, else
\* 200 with a session token signed for the handler's lifetime
Login ==
    /\ acct.served + Cardinality(acct.inflight) < MaxRequests
    /\ \E path \in LoginPaths, email \in Emails, password \in Passwords :
          LET id == findOne(acct.users, email)
              req == [NoRequest EXCEPT !.endpoint = "login", !.path = path,
                                       !.email = email, !.password = password]
              accepted == id # 0 /\ Compare(password, acct.users[id].password)
              token == sign(id, Undefined, SessionExpiresIn(path), path, acct.now)
          IN  acct' = [acct EXCEPT
                         !.served = @ + 1,
                         !.tokens = IF accepted THEN @ \cup {token} ELSE @,
                         !.res = Answer(acct.served + 1, acct.now, req,
                                        IF accepted
                                        THEN Response(200, {"token", "user"}, "")
                                        ELSE Response(401, {"message"},
                                                      "Invalid credentials"))]
    /\ UNCHANGED <<tv, mv, calls, started, now, meta, last, pop, trend, trailer, auth, ui>>

\* a register handler up to the await after its existence check
RegisterCheck ==
    /\ acct.served + Cardinality(acct.inflight) < MaxRequests
    /\ \E path \in RegisterPaths, email \in Emails :
          LET req == [NoRequest EXCEPT !.n = acct.served + Cardinality(acct.inflight) + 1,
                                       !.endpoint = "register", !.path = path,
                                       !.email = email, !.password = "pw1"]
          IN  IF findOne(acct.users, email) # 0
              THEN acct' = [acct EXCEPT
                              !.served = @ + 1,
                              !.res = Answer(acct.served + 1, acct.now, req,
                                             Response(400, {"message"},
                                                      "User already exists"))]
              ELSE acct' = [acct EXCEPT !.inflight = @ \cup {req}]
    /\ UNCHANGED <<tv, mv, calls, started, now, meta, last, pop, trend, trailer, auth, ui>>

\* the 201 response of a register handler
Registered(path) ==
    IF path = "route" THEN Response(201, {"user"}, "")
    ELSE IF path = "controller"
    THEN Response(201, {"message", "token", "user"}, "User registered successfully")
    ELSE Response(201, {"token", "user"}, "")

\* the 500 response of a register handler's catch
RegisterFailed(path) ==
    IF path = "route" THEN Response(500, {"message"}, "Error creating user")
    ELSE IF path = "controller" THEN Response(500, {"message"}, "Error registering user")
    ELSE Response(500, {"message", "error"}, "Server error")

\* a register handler from the hash on: the insert is refused by the unique
\* index when the collection has it and the email is there by now (the
\* handler's catch answers 500); otherwise the user is added, and every
\* handler but the route signs a session token
RegisterSave ==
    /\ \E req \in acct.inflight :
          LET refused == acct.index /\ findOne(acct.users, req.email) # 0
              id == Len(acct.users) + 1
              token == sign(id, Undefined, SessionExpiresIn(req.path), req.path, acct.now)
          IN  acct' = [acct EXCEPT
                         !.inflight = @ \ {req},
                         !.served = @ + 1,
                         !.users = IF refused THEN @
                                   ELSE Append(@, [email |-> req.email,
                                                   password |-> Hash(req.password)]),
                         !.tokens = IF refused \/ req.path = "route" THEN @
                                    ELSE @ \cup {token},
                         !.res = Answer(acct.served + 1, acct.now, req,
                                        IF refused THEN RegisterFailed(req.path)
                                        ELSE Registered(req.path))]
    /\ UNCHANGED <<tv, mv, calls, started, now, meta, last, pop, trend, trailer, auth, ui>>

\* a request to an endpoint behind authenticateToken (/api/users/profile)
Authenticate ==
    /\ acct.served + Cardinality(acct.inflight) < MaxRequests
    /\ \E token \in Presentable \cup {NoToken} :
          LET status == authenticateToken(token, acct.now)
              req == [NoRequest EXCEPT !.endpoint = "profile", !.token = token]
          IN  acct' = [acct EXCEPT
                         !.served = @ + 1,
                         !.res = Answer(acct.served + 1, acct.now, req,
                                        IF status = 200 THEN Response(200, {"user"}, "")
                                        ELSE IF status = 401
                                        THEN Response(401, {"message"},
                                                      "Access denied. No token provided.")
                                        ELSE Response(403, {"message"},
                                                      "Invalid or expired token."))]
    /\ UNCHANGED <<tv, mv, calls, started, now, meta, last, pop, trend, trailer, auth, ui>>

\* the server clock advances
AcctTick ==
    /\ \E t \in AcctInstants :
          /\ t > acct.now
          /\ acct' = [acct EXCEPT !.now = t]
    /\ UNCHANGED <<tv, mv, calls, started, now, meta, last, pop, trend, trailer, auth, ui>>

(***************************************************************************)
(* SearchBar.                                                              *)
(*                                                                         *)
(* ui.bar is one mounted SearchBar: the text of the input (query), the     *)
(* router's location (pathname, search), whether the effect that depends   *)
(* on location.search has yet to run, the handler that ran last and the    *)
(* number of submissions, clears and effects so far (handled).             *)
(* React flushes a pending effect before it handles the next event.        *)
(***************************************************************************)
\* store actions the SearchBar invokes in one behaviour
MaxBarCalls == 3

\* what the user can have typed into the search box
Typed == {"", " ", "a", " a", "a a"}

\* encodeURIComponent, over the characters of Typed
RECURSIVE encodeURIComponent(_)
encodeURIComponent(s) ==
    IF s = "" THEN ""
    ELSE (IF SubSeq(s, 1, 1) = " " THEN "%20" ELSE SubSeq(s, 1, 1))
            \o encodeURIComponent(SubSeq(s, 2, Len(s)))

\* the decoding URLSearchParams applies to a value
RECURSIVE decodeParam(_)
decodeParam(s) ==
    IF s = "" THEN ""
    ELSE IF Len(s) >= 3 /\ SubSeq(s, 1, 3) = "%20"
         THEN " " \o decodeParam(SubSeq(s, 4, Len(s)))
         ELSE (IF SubSeq(s, 1, 1) = "+" THEN " " ELSE SubSeq(s, 1, 1))
                 \o decodeParam(SubSeq(s, 2, Len(s)))

\* new URLSearchParams(location.search).get('q') || ''
urlQuery(search) ==
    IF Len(search) >= 3 /\ SubSeq(search, 1, 3) = "?q="
    THEN decodeParam(SubSeq(search, 4, Len(search)))
    ELSE ""

\* if (query.trim()): the blank test, the form without trim() kept beside it
HasQuery_untrimmed(query) == query # ""

HasQuery(query) == Trim(query) # ""

\* the SearchBar as mounted at a location; its effect runs after the mount
BarMounted(pathname, search) ==
    [query |-> urlQuery(search), pathname |-> pathname, search |-> search,
     effect |-> TRUE, handler |-> "mount", handled |-> 0]

\* navigate(to): the location changes, and the effect is due when
\* location.search changed
navigate(bar, pathname, search) ==
    [bar EXCEPT !.pathname = pathname, !.search = search,
                !.effect = search # bar.search]

\* setSearchParams(params) on the store state s
setSearchParams(s, params) ==
    [s EXCEPT !.searchParams =
        [k \in DOMAIN @ |-> IF k \in DOMAIN params THEN params[k] ELSE @[k]]]

\* onChange of the input: setQuery(e.target.value)
SetQuery ==
    /\ ~ui.bar.effect
    /\ \E value \in Typed \ {ui.bar.query} :
          ui' = [ui EXCEPT !.bar.query = value, !.bar.handler = "onChange"]
    /\ UNCHANGED <<tv, mv, calls, started, now, meta, last, pop, trend, trailer,
                   auth, acct>>

\* handleSearch: the form is submitted
HandleSearch ==
    /\ ~ui.bar.effect
    /\ started + 2 <= MaxBarCalls
    /\ LET query == ui.bar.query
       IN  IF HasQuery(query)
           THEN /\ ui' = [ui EXCEPT !.bar =
                            [navigate(@, "/movies",
                                      "?q=" \o encodeURIComponent(Trim(query)))
                                EXCEPT !.handler = "handleSearch",
                                       !.handled = @ + 1]]
                /\ searchForMovies(
                       setSearchParams(mv, [query |-> Trim(query),
                                            resultsPerPage |-> 50,
                                            includeAdult |-> FALSE]),
                       query, 1, 50)
           ELSE /\ ui' = [ui EXCEPT !.bar =
                            [navigate(@, "/movies", "")
                                EXCEPT !.handler = "handleSearch",
                                       !.handled = @ + 1]]
                /\ fetchMovies(1, 40)
    /\ UNCHANGED <<trend, trailer, auth, acct>>

\* clearSearch: the clear button, rendered while the input has text
ClearSearch ==
    /\ ~ui.bar.effect
    /\ started + 2 <= MaxBarCalls
    /\ ui.bar.query # ""
    /\ ui' = [ui EXCEPT !.bar =
                [navigate(@, "/movies", "")
                    EXCEPT !.query = "", !.handler = "clearSearch",
                           !.handled = @ + 1]]
    /\ fetchMovies(1, 40)
    /\ UNCHANGED <<trend, trailer, auth, acct>>

\* the effect on [location.search]
LocationEffect ==
    /\ ui.bar.effect
    /\ LET searchQuery == urlQuery(ui.bar.search)
       IN  /\ ui' = [ui EXCEPT !.bar.query = searchQuery, !.bar.effect = FALSE,
                               !.bar.handler = "effect", !.bar.handled = @ + 1]
           /\ IF searchQuery # "" /\ ui.bar.pathname = "/movies"
              THEN searchForMovies(mv, searchQuery, 1, 50)
              ELSE UNCHANGED <<tv, mv, calls, started, now, meta, last, pop>>
    /\ UNCHANGED <<trend, trailer, auth, acct>>

(***************************************************************************)
(* The router, ProtectedRoute and the token-rehydrating auth store.        *)
(*                                                                         *)
(* authStore.ts holds two stores.  The first (the verifying store, above)  *)
(* starts anonymous and asks the server about the stored token; the second *)
(* (the rehydrating store) starts from localStorage.  ui.route is the      *)
(* router's location with the ProtectedRoute mounted at "/": the store in  *)
(* use (variant), the path, whether App's mount effect has run, the state  *)
(* checkComplete, whether the effect on [isAuthenticated] has run and the  *)
(* value it saw, the checkAuthentication calls it awaits, and the number   *)
(* of <Navigate> redirections so far.                                      *)
(***************************************************************************)
\* <Navigate> redirections followed in one behaviour
MaxRedirects == 3

\* the render of ProtectedRoute with only isAuthenticated tested (a faulty
\* variant)
ProtectedRoute_anyAuthenticated(store, checkComplete) ==
    IF store.loading \/ ~checkComplete THEN "spinner"
    ELSE IF ~store.isAuthenticated THEN "redirect"
    ELSE "children"

\* the render of ProtectedRoute
ProtectedRoute(store, checkComplete) ==
    IF store.loading \/ ~checkComplete THEN "spinner"
    ELSE IF ~store.isAuthenticated \/ store.user = NoUser THEN "redirect"
    ELSE "children"

\* the element of the /auth route
AuthRoute(store) ==
    IF store.loading THEN "spinner"
    ELSE IF store.isAuthenticated THEN "redirect"
    ELSE "form"

\* the initial state of the rehydrating store
RehydratedStore(storage) ==
    [AuthStoreInit EXCEPT !.token = storage, !.isAuthenticated = storage # Null]

\* a ProtectedRoute that has just been mounted
Unmounted(route) ==
    [route EXCEPT !.checkComplete = FALSE, !.effectRan = FALSE, !.seen = FALSE,
                  !.awaiting = {}]

RouteIdle ==
    [variant |-> "verifying", path |-> "/", appChecked |-> FALSE,
     checkComplete |-> FALSE, effectRan |-> FALSE, seen |-> FALSE,
     awaiting |-> {}, redirects |-> 0]

\* checkAuthentication of the rehydrating store: it has no await
RehydratingCheckAuthentication ==
    auth' = [auth EXCEPT
               !.started = @ + 1,
               !.store = IF auth.storage = Null
                         THEN [@ EXCEPT !.isAuthenticated = FALSE, !.user = NoUser,
                                        !.token = Null]
                         ELSE [@ EXCEPT !.isAuthenticated = TRUE],
               !.done = [Done("checkAuthentication", auth.started + 1, NoReply)
                            EXCEPT !.success = auth.storage # Null]]

\* signIn of the rehydrating store up to the await of fetch
RehydratingSignInStart ==
    /\ ui.route.variant = "rehydrating"
    /\ ui.route.path = "/auth"
    /\ AuthRoute(auth.store) = "form"
    /\ auth.started < MaxAuthOps
    /\ auth' = [auth EXCEPT
                  !.started = @ + 1,
                  !.store.loading = TRUE,
                  !.store.error = Null,
                  !.pending = @ \cup {Call("signIn", auth.started + 1, Null)}]
    /\ UNCHANGED <<tv, mv, calls, started, now, meta, last, pop, trend, trailer, acct, ui>>

\* signIn of the rehydrating store from the response on
RehydratingSignInSettle ==
    /\ ui.route.variant = "rehydrating"
    /\ \E call \in auth.pending, reply \in LoginReplies \cup TransportReplies :
          /\ call.op = "signIn"
          /\ auth' = [auth EXCEPT
                        !.pending = @ \ {call},
                        !.done = [Done("signIn", call.n, reply) EXCEPT
                                     !.success = Ok(reply)],
                        !.storage = IF Ok(reply) THEN reply.token ELSE @,
                        !.store = IF Ok(reply)
                                  THEN [@ EXCEPT !.user = reply.user,
                                                 !.token = reply.token,
                                                 !.isAuthenticated = TRUE,
                                                 !.loading = FALSE]
                                  ELSE [@ EXCEPT
                                          !.error = ThrownMessage(reply,
                                                        "Invalid credentials"),
                                          !.loading = FALSE]]
    /\ UNCHANGED <<tv, mv, calls, started, now, meta, last, pop, trend, trailer, acct, ui>>

\* signOut of the rehydrating store
RehydratingSignOut ==
    /\ ui.route.variant = "rehydrating"
    /\ auth.started < MaxAuthOps
    /\ auth' = [auth EXCEPT
                  !.started = @ + 1,
                  !.storage = Null,
                  !.store = [@ EXCEPT !.user = NoUser, !.token = Null,
                                      !.isAuthenticated = FALSE],
                  !.done = [Done("signOut", auth.started + 1, NoReply) EXCEPT
                               !.success = TRUE]]
    /\ UNCHANGED <<tv, mv, calls, started, now, meta, last, pop, trend, trailer, acct, ui>>

\* the store's checkAuthentication, in the store in use
CheckAuthenticationOf(variant) ==
    IF variant = "verifying" THEN checkAuthentication
    ELSE RehydratingCheckAuthentication

\* App's effect on mount: checkAuthentication()
AppMount ==
    /\ ~ui.route.appChecked
    /\ auth.started < MaxAuthOps
    /\ CheckAuthenticationOf(ui.route.variant)
    /\ ui' = [ui EXCEPT !.route.appChecked = TRUE]
    /\ UNCHANGED <<tv, mv, calls, started, now, meta, last, pop, trend, trailer, acct>>

\* ProtectedRoute's effect on [isAuthenticated, checkAuthentication]: it runs
\* after the mount and after a render with another isAuthenticated
ProtectedEffect ==
    /\ ui.route.path = "/"
    /\ ~ui.route.effectRan \/ ui.route.seen # auth.store.isAuthenticated
    /\ IF ~auth.store.isAuthenticated /\ auth.storage # Null
       THEN /\ auth.started < MaxAuthOps
            /\ CheckAuthenticationOf(ui.route.variant)
            /\ ui' = [ui EXCEPT !.route.effectRan = TRUE,
                                !.route.seen = auth.store.isAuthenticated,
                                !.route.awaiting = @ \cup {auth.started + 1}]
       ELSE /\ ui' = [ui EXCEPT !.route.effectRan = TRUE,
                                !.route.seen = auth.store.isAuthenticated,
                                !.route.checkComplete = TRUE]
            /\ auth' = auth
    /\ UNCHANGED <<tv, mv, calls, started, now, meta, last, pop, trend, trailer, acct>>

\* checkAuth after its await: finally { setCheckComplete(true) }
ProtectedChecked ==
    /\ ui.route.path = "/"
    /\ \E n \in ui.route.awaiting :
          /\ \A call \in auth.pending : call.n # n
          /\ ui' = [ui EXCEPT !.route.awaiting = @ \ {n},
                              !.route.checkComplete = TRUE]
    /\ UNCHANGED <<tv, mv, calls, started, now, meta, last, pop, trend, trailer,
                   auth, acct>>

\* ProtectedRoute renders <Navigate to="/auth" replace />
RedirectToAuth ==
    /\ ui.route.path = "/"
    /\ ui.route.redirects < MaxRedirects
    /\ ProtectedRoute(auth.store, ui.route.checkComplete) = "redirect"
    /\ ui' = [ui EXCEPT !.route = [Unmounted(@) EXCEPT !.path = "/auth",
                                                       !.redirects = @ + 1]]
    /\ UNCHANGED <<tv, mv, calls, started, now, meta, last, pop, trend, trailer,
                   auth, acct>>

\* the /auth route renders <Navigate to="/" replace />
RedirectHome ==
    /\ ui.route.path = "/auth"
    /\ ui.route.redirects < MaxRedirects
    /\ AuthRoute(auth.store) = "redirect"
    /\ ui' = [ui EXCEPT !.route = [Unmounted(@) EXCEPT !.path = "/",
                                                       !.redirects = @ + 1]]
    /\ UNCHANGED <<tv, mv, calls, started, now, meta, last, pop, trend, trailer,
                   auth, acct>>

\* the components before anything is mounted
UiIdle == [bar |-> [BarMounted("/", "") EXCEPT !.effect = FALSE], route |-> RouteIdle]

(***************************************************************************)
(* Specifications.                                                         *)
(***************************************************************************)
Init ==
    /\ tv = TVInit
    /\ mv = MVInit
    /\ calls = {}
    /\ started = 0
    /\ now = 0
    /\ meta = EmptyMap
    /\ last = NoStep
    /\ pop = PopIdle
    /\ trend = TrendIdle
    /\ trailer = TrailerIdle
    /\ auth = AuthInit
    /\ acct = AcctIdle
    /\ ui = UiIdle

\* the load and search actions of the TV series store
TVLoads ==
    \/ FetchSeriesStart
    \/ FetchSeriesResolve
    \/ SearchForSeriesStart
    \/ SearchForSeriesResolve

\* the load and search actions of the movie store
MovieLoads ==
    \/ FetchMoviesStart
    \/ FetchMoviesResolve
    \/ SearchForMoviesStart
    \/ SearchForMoviesResolve
    \/ FetchTrendingStart
    \/ FetchTrendingResolve
    \/ FetchMoviesByGenreStart
    \/ FetchMoviesByGenreResolve

\* both stores, their actions overlapping freely
Next == TVLoads \/ MovieLoads

Spec == Init /\ [][Next]_vars

\* the TV series store with its cache and the clock
NextTV == TVLoads \/ ClearSeriesCache \/ Tick

SpecTV == Init /\ [][NextTV]_vars

\* the cached actions of the movie store, one at a time, with the genre
\* filter, the cache and the clock
MovieCachedStarts ==
    /\ calls = {}
    /\ \/ FetchMoviesStart
       \/ FetchTrendingStart
       \/ FetchMoviesByGenreStart

MovieCachedResolves ==
    \/ FetchMoviesResolve
    \/ FetchTrendingResolve
    \/ FetchMoviesByGenreResolve

NextMovie ==
    \/ MovieCachedStarts
    \/ MovieCachedResolves
    \/ SetSelectedGenre
    \/ ClearMovieCache
    \/ Expire

SpecMovie == Init /\ [][NextMovie]_vars

\* no success bodies: the request fails
NoBodies == [page \in 1..MaxPage |-> {}]

\* every store action, its upstream request failing in each of the ways
FetchSeriesReject == FetchSeriesSettle(NoBodies, AxiosErrors)
SearchForSeriesReject == SearchForSeriesSettle(NoBodies, AxiosErrors)
FetchMoviesReject == FetchMoviesSettle(NoBodies, AxiosErrors)
SearchForMoviesReject == SearchForMoviesSettle(NoBodies, AxiosErrors)
FetchTrendingReject == FetchTrendingSettle(NoBodies, AxiosErrors)
FetchMoviesByGenreReject == FetchMoviesByGenreSettle(NoBodies, AxiosErrors)

ErrorStarts ==
    /\ calls = {}
    /\ \/ FetchSeriesStart
       \/ SearchForSeriesStart
       \/ FetchMoviesStart
       \/ SearchForMoviesStart
       \/ FetchTrendingStart
       \/ FetchMoviesByGenreStart

NextErrors ==
    \/ ErrorStarts
    \/ FetchSeriesReject
    \/ SearchForSeriesReject
    \/ FetchMoviesReject
    \/ SearchForMoviesReject
    \/ FetchTrendingReject
    \/ FetchMoviesByGenreReject

SpecErrors == Init /\ [][NextErrors]_vars

\* search results long enough to need sorting
SortBodies(page) ==
    {Body(r, page, MaxPage, MaxPage * UpstreamPageSize) :
        r \in ListsUpTo({MovieOf(i) : i \in 1..(MaxItem + 1)}, MaxLen + 1)}

SearchForMoviesSorts ==
    SearchForMoviesSettle([page \in 1..MaxPage |-> SortBodies(page)], TransportErrors)

NextSearch == (calls = {} /\ SearchForMoviesStart) \/ SearchForMoviesSorts

SpecSearch == Init /\ [][NextSearch]_vars

\* one getPopularMovies(page, n) call against an upstream list
InitPopular ==
    /\ tv = TVInit
    /\ mv = MVInit
    /\ calls = {}
    /\ started = 0
    /\ now = 0
    /\ meta = EmptyMap
    /\ last = NoStep
    /\ \E page \in 1..MaxPage, n \in 1..MaxResults, size \in CatalogSizes :
          pop = [PopIdle EXCEPT !.pc = "called", !.page = page, !.n = n,
                                !.catalog = size]
    /\ trend = TrendIdle
    /\ trailer = TrailerIdle
    /\ auth = AuthInit
    /\ acct = AcctIdle
    /\ ui = UiIdle

NextPopular == PopularRequest \/ PopularReply \/ PopularReject \/ PopularJoin

SpecPopular == InitPopular /\ [][NextPopular]_vars

\* every store action, run one at a time to its end
SoloStarts ==
    /\ calls = {}
    /\ \/ FetchSeriesStart
       \/ SearchForSeriesStart
       \/ FetchMoviesStart
       \/ SearchForMoviesStart
       \/ FetchTrendingStart
       \/ FetchMoviesByGenreStart

NextSolo ==
    \/ SoloStarts
    \/ FetchSeriesResolve
    \/ SearchForSeriesResolve
    \/ FetchMoviesResolve
    \/ SearchForMoviesResolve
    \/ FetchTrendingResolve
    \/ FetchMoviesByGenreResolve

SpecSolo == Init /\ [][NextSolo]_vars

\* one getTrendingMovies(timeWindow) call against an upstream list
InitTrending ==
    /\ tv = TVInit
    /\ mv = MVInit
    /\ calls = {}
    /\ started = 0
    /\ now = 0
    /\ meta = EmptyMap
    /\ last = NoStep
    /\ pop = PopIdle
    /\ \E timeWindow \in TimeWindows, size \in CatalogSizes :
          trend = [TrendIdle EXCEPT !.pc = "called", !.timeWindow = timeWindow,
                                    !.catalog = size]
    /\ trailer = TrailerIdle
    /\ auth = AuthInit
    /\ acct = AcctIdle
    /\ ui = UiIdle

NextTrending ==
    \/ TrendingCall
    \/ TrendingAttemptSucceeds
    \/ TrendingAttemptFails
    \/ TrendingRetry
    \/ TrendingJoin

SpecTrending == InitTrending /\ [][NextTrending]_vars

\* getBestTrailer called with no list, or with any list of up to MaxVideos
\* videos
InitTrailer ==
    /\ tv = TVInit
    /\ mv = MVInit
    /\ calls = {}
    /\ started = 0
    /\ now = 0
    /\ meta = EmptyMap
    /\ last = NoStep
    /\ pop = PopIdle
    /\ trend = TrendIdle
    /\ \/ trailer = [TrailerIdle EXCEPT !.pc = "called"]
       \/ \E n \in 0..MaxVideos : \E videos \in VideoLists(n) :
             trailer = [TrailerIdle EXCEPT !.pc = "called", !.present = TRUE,
                                           !.videos = videos]
    /\ auth = AuthInit
    /\ acct = AcctIdle
    /\ ui = UiIdle

NextTrailer == GetBestTrailer

SpecTrailer == InitTrailer /\ [][NextTrailer]_vars

\* the auth store from page load, localStorage holding a token of an earlier
\* visit or none
InitAuth ==
    /\ tv = TVInit
    /\ mv = MVInit
    /\ calls = {}
    /\ started = 0
    /\ now = 0
    /\ meta = EmptyMap
    /\ last = NoStep
    /\ pop = PopIdle
    /\ trend = TrendIdle
    /\ trailer = TrailerIdle
    /\ \E stored \in {Null, "jwt1"} : auth = [AuthInit EXCEPT !.storage = stored]
    /\ acct = AcctIdle
    /\ ui = UiIdle

NextAuth ==
    \/ SignInStart
    \/ SignInSettle
    \/ SignUpStart
    \/ SignUpSettle
    \/ CheckAuthenticationStart
    \/ CheckAuthenticationSettle
    \/ SignOut
    \/ Logout
    \/ LogoutNotified
    \/ AddToFavorites
    \/ AddToWatchlist
    \/ SyncSettled

SpecAuth == InitAuth /\ [][NextAuth]_vars

\* the account service with one registered user (a@x.com) or none, the users
\* collection with or without the unique index on email
InitAccount ==
    /\ tv = TVInit
    /\ mv = MVInit
    /\ calls = {}
    /\ started = 0
    /\ now = 0
    /\ meta = EmptyMap
    /\ last = NoStep
    /\ pop = PopIdle
    /\ trend = TrendIdle
    /\ trailer = TrailerIdle
    /\ auth = AuthInit
    /\ \E index \in BOOLEAN,
          users \in {<<>>, <<[email |-> "a@x.com", password |-> Hash("pw1")]>>} :
          acct = [AcctIdle EXCEPT !.index = index, !.users = users]
    /\ ui = UiIdle

\* password reset: tokens are requested, session tokens signed, tokens
\* presented to resetPassword as time passes
NextReset ==
    \/ RequestPasswordReset
    \/ ResetPassword
    \/ Login
    \/ AcctTick

SpecReset == InitAccount /\ [][NextReset]_vars

\* sessions: tokens are signed by the login and register handlers and
\* presented to authenticateToken as time passes
NextSession ==
    \/ Login
    \/ RegisterCheck
    \/ RegisterSave
    \/ Authenticate
    \/ AcctTick

SpecSession == InitAccount /\ [][NextSession]_vars

\* registrations, interleaved at their awaits
NextRegister ==
    \/ RegisterCheck
    \/ RegisterSave

SpecRegister == InitAccount /\ [][NextRegister]_vars


\* bearer tokens: reset tokens are requested, session tokens signed, and
\* either kind presented to authenticateToken as time passes
NextBearer ==
    \/ RequestPasswordReset
    \/ Login
    \/ Authenticate
    \/ AcctTick

SpecBearer == InitAccount /\ [][NextBearer]_vars


\* paging: every upstream response is a page of its list with
\* 1 <= page <= total_pages; the paged actions of both stores run one at a
\* time, from the cache or from the upstream
PagedTVBodies(page) ==
    {Body(r, page, t, t * UpstreamPageSize) :
        r \in ListsUpTo(1..MaxItem, MaxLen), t \in page..MaxPage}

PagedMovieBodies(page) ==
    {Body(r, page, t, t * UpstreamPageSize) :
        r \in ListsUpTo(MovieItems, MaxLen), t \in page..MaxPage}

FetchSeriesPaged ==
    FetchSeriesSettle([page \in 1..MaxPage |-> PagedTVBodies(page)], TransportErrors)

SearchForSeriesPaged ==
    SearchForSeriesSettle([page \in 1..MaxPage |-> PagedTVBodies(page)], TransportErrors)

FetchMoviesPaged ==
    FetchMoviesSettle([page \in 1..MaxPage |-> PagedMovieBodies(page)], TransportErrors)

SearchForMoviesPaged ==
    SearchForMoviesSettle([page \in 1..MaxPage |-> PagedMovieBodies(page)],
                          TransportErrors)

FetchMoviesByGenrePaged ==
    FetchMoviesByGenreSettle([page \in 1..MaxPage |-> PagedMovieBodies(page)],
                             TransportErrors)

PagedStarts ==
    /\ calls = {}
    /\ \/ FetchSeriesStart
       \/ SearchForSeriesStart
       \/ FetchMoviesStart
       \/ SearchForMoviesStart
       \/ FetchMoviesByGenreStart

NextPaging ==
    \/ PagedStarts
    \/ FetchSeriesPaged
    \/ SearchForSeriesPaged
    \/ FetchMoviesPaged
    \/ SearchForMoviesPaged
    \/ FetchMoviesByGenrePaged

SpecPaging == Init /\ [][NextPaging]_vars


\* store actions invoked in one behaviour of the cached operations
MaxCachedCalls == 3

\* the cached operations of the movie store and the search, one at a time:
\* a request can be answered, fail, and be asked again
CachedCall ==
    /\ started < MaxCachedCalls
    /\ calls = {}
    /\ \/ \E page \in 1..MaxPage : fetchMovies(page, DefaultPageSize)
       \/ \E timeWindow \in TimeWindows : fetchTrending(timeWindow)
       \/ \E page \in 1..MaxPage : fetchMoviesByGenre(28, page, "popularity", TRUE)
       \/ searchForMovies(mv, "a", 1, DefaultPageSize)
    /\ UNCHANGED otherVars

NextCached ==
    \/ CachedCall
    \/ FetchMoviesResolve
    \/ FetchTrendingResolve
    \/ FetchMoviesByGenreResolve
    \/ SearchForMoviesResolve

SpecCached == Init /\ [][NextCached]_vars


\* the search bar: mounted at a location, the user types, submits and clears
\* while the store's requests are answered
InitSearchBar ==
    /\ tv = TVInit
    /\ mv = MVInit
    /\ calls = {}
    /\ started = 0
    /\ now = 0
    /\ meta = EmptyMap
    /\ last = NoStep
    /\ pop = PopIdle
    /\ trend = TrendIdle
    /\ trailer = TrailerIdle
    /\ auth = AuthInit
    /\ acct = AcctIdle
    /\ \E pathname \in {"/", "/movies"}, search \in {"", "?q=a"} :
          ui = [UiIdle EXCEPT !.bar = BarMounted(pathname, search)]

NextSearchBar ==
    \/ SetQuery
    \/ HandleSearch
    \/ ClearSearch
    \/ LocationEffect
    \/ SearchForMoviesResolve
    \/ FetchMoviesResolve

SpecSearchBar == InitSearchBar /\ [][NextSearchBar]_vars


\* routing: the application starts at "/" or "/auth", with or without a
\* stored token, on either store; the user signs in at the form and signs
\* out from the Navbar
InitRoute ==
    /\ tv = TVInit
    /\ mv = MVInit
    /\ calls = {}
    /\ started = 0
    /\ now = 0
    /\ meta = EmptyMap
    /\ last = NoStep
    /\ pop = PopIdle
    /\ trend = TrendIdle
    /\ trailer = TrailerIdle
    /\ acct = AcctIdle
    /\ \E variant \in {"verifying", "rehydrating"}, stored \in {Null, "jwt1"},
          path \in {"/", "/auth"} :
          /\ auth = [AuthInit EXCEPT
                       !.storage = stored,
                       !.store = IF variant = "verifying" THEN AuthStoreInit
                                 ELSE RehydratedStore(stored)]
          /\ ui = [UiIdle EXCEPT !.route.variant = variant, !.route.path = path]

NextRoute ==
    \/ AppMount
    \/ ProtectedEffect
    \/ ProtectedChecked
    \/ RedirectToAuth
    \/ RedirectHome
    \/ /\ ui.route.variant = "verifying"
       /\ \/ (ui.route.path = "/auth" /\ AuthRoute(auth.store) = "form" /\ SignInStart)
          \/ SignInSettle
          \/ CheckAuthenticationSettle
          \/ SignOut
    \/ RehydratingSignInStart
    \/ RehydratingSignInSettle
    \/ RehydratingSignOut

SpecRoute == InitRoute /\ [][NextRoute]_vars

(***************************************************************************)
(* Properties.                                                             *)
(***************************************************************************)

\* C1: in the TV series store a step of fetchSeries or searchForSeries serves
\* the list from seriesCache only if the entry of the request key exists and
\* now - timestamp < 30 minutes; with no entry, or one aged 30 minutes or
\* more, it issues the upstream request instead, and the success of that
\* request overwrites the entry with the new results stamped with the
\* current time.
SeriesCacheServedOnlyWhenFresh ==
    [][LET c == last'.call
           key == IF c.op = "fetchSeries" THEN SeriesKey(c.category, c.page)
                  ELSE SeriesSearchKey(c.query, c.page)
       IN  c.store = "tv" /\ last'.ev \in {"hit", "request", "success"} =>
             /\ c.cacheKey = key
             /\ last'.ev = "hit" =>
                   /\ key \in DOMAIN tv.seriesCache
                   /\ now - tv.seriesCache[key].timestamp < 30 * 60 * 1000
                   /\ tv'.series = tv.seriesCache[key].data
                   /\ tv'.seriesCache = tv.seriesCache
                   /\ calls' = calls
             /\ last'.ev = "request" =>
                   /\ \/ key \notin DOMAIN tv.seriesCache
                      \/ now - tv.seriesCache[key].timestamp >= 30 * 60 * 1000
                   /\ c.upstream # "none"
                   /\ c \notin calls
                   /\ calls' = calls \cup {c}
             /\ last'.ev = "success" =>
                   /\ c \in calls
                   /\ tv'.seriesCache =
                         Put(tv.seriesCache, key,
                             [data |-> last'.body.results, timestamp |-> now])
      ]_vars

\* C1 witness: an entry that had reached the age of 30 minutes has just been
\* refetched and overwritten with a new timestamp
ExpiredSeriesEntryRefreshed ==
    /\ last.ev = "success"
    /\ last.call.store = "tv"
    /\ last.age >= CACHE_EXPIRATION
    /\ now >= CACHE_EXPIRATION
    /\ tv.seriesCache[last.call.cacheKey].timestamp = now
    /\ tv.seriesCache[last.call.cacheKey].data = last.body.results

\* C2: in the movie store fetchMovies, fetchTrending and fetchMoviesByGenre
\* never serve from movieCache an entry stored 30 minutes or more earlier.
MovieCacheNeverServesExpired ==
    (last.ev = "hit" /\ last.call.store = "movie"
        /\ last.call.op \in {"fetchMovies", "fetchTrending", "fetchMoviesByGenre"})
    => last.age < 30 * 60 * 1000

\* C3: a cache hit never returns items computed for a different request: the
\* entry fetchMovies or fetchTrending serves was stored under the same
\* selectedGenreId filter as the one now selected.
CacheHitSameRequest ==
    (last.ev = "hit" /\ last.call.store = "movie"
        /\ last.call.op \in {"fetchMovies", "fetchTrending"})
    => /\ last.call.cacheKey \in DOMAIN meta
       /\ meta[last.call.cacheKey].filter = mv.selectedGenreId

\* C4: when the upstream request of a store action fails with 401, 404, 429,
\* a 5xx status or no response, the error field of the store holds the
\* classified message of that class, not the unknown-error message.
FailureMessageClassified ==
    (/\ last.ev = "failure"
     /\ last.cause.isAxiosError
     /\ \/ last.cause.hasResponse /\ last.cause.status \in {401, 404, 429, 500, 503}
        \/ ~last.cause.hasResponse /\ last.cause.hasRequest)
    => LET recorded == IF last.call.store = "tv" THEN tv.error ELSE mv.error
       IN
       /\ recorded =
            (CASE last.cause.hasResponse /\ last.cause.status = 401 ->
                      "Invalid API key or unauthorized request"
               [] last.cause.hasResponse /\ last.cause.status = 404 ->
                      "The requested resource was not found"
               [] last.cause.hasResponse /\ last.cause.status = 429 ->
                      "Too many requests. Please try again later"
               [] last.cause.hasResponse /\ last.cause.status \in {500, 503} ->
                      "Server error. Please try again later"
               [] OTHER -> "No response from server. Please check your internet connection")
       /\ recorded # "An unknown error occurred"

\* C5: a load action started while another of the same store is pending does
\* not cancel it (starting an action removes no pending one, and a pending
\* action ends only by its own resolution), and every successful resolution
\* writes the state, whatever the order of the starts: after it the visible
\* items, currentPage and totalPages are those of that response, so that
\* the response resolving last is the one shown.
LastResolvedWins ==
    [][LET c == last'.call
           b == last'.body
       IN  /\ started' # started => calls \subseteq calls'
           /\ last'.ev \in {"success", "failure"} =>
                 /\ c \in calls
                 /\ calls' = calls \ {c}
           /\ last'.ev = "success" /\ c.store = "tv" =>
                 /\ tv'.series = b.results
                 /\ tv'.currentPage = (IF b.page = 0 THEN 1 ELSE b.page)
                 /\ tv'.totalPages = (IF b.total_pages = 0 THEN 1 ELSE b.total_pages)
           /\ last'.ev = "success" /\ c.store = "movie" /\ c.op # "fetchTrending" =>
                 /\ mv'.currentPage = (IF b.page = 0 THEN 1 ELSE b.page)
                 /\ mv'.totalPages = (IF b.total_pages = 0 THEN 1 ELSE b.total_pages)
                 /\ c.op = "fetchMovies" =>
                       mv'.movies = GenreFiltered(b.results, mv.selectedGenreId)
                 /\ c.op = "fetchMoviesByGenre" => mv'.movies = b.results
                 /\ c.op = "searchForMovies" =>
                       \E tz \in TimeZoneOffsets : mv'.movies = SortByYear(b.results, tz)
           /\ last'.ev = "success" /\ c.op = "fetchTrending" =>
                 mv'.trending = GenreFiltered(b.results, mv.selectedGenreId)
      ]_vars

\* C5 witness: fetchMovies(1) then fetchMovies(2) were both pending, the
\* response of page 2 arrived first and the response of page 1 last: page 1
\* is shown
FirstStartedResolvedLast ==
    /\ last.ev = "success"
    /\ last.call.op = "fetchMovies"
    /\ last.call.id = 1
    /\ last.call.page = 1
    /\ started = 2
    /\ calls = {}
    /\ MoviesKey(2, DefaultPageSize) \in DOMAIN mv.movieCache
    /\ mv.currentPage = 1
    /\ mv.movies = last.body.results
    /\ mv.movies # <<>>

\* C6: in each store, loading is true exactly when some started load or
\* search action has not yet reached its success or its error.
LoadingIffPending ==
    /\ tv.loading <=> (\E c \in calls : c.store = "tv")
    /\ mv.loading <=> (\E c \in calls : c.store = "movie")

\* C7: for an action run alone, the step that puts the request in flight and
\* the step that ends it in failure leave the visible items, currentPage,
\* totalPages and the cache as they were: the start writes only loading,
\* error and its query / genre / category marker, the failure only loading
\* and error.
InFlightAndFailureKeepItems ==
    [][/\ last'.ev = "request" /\ last'.call.store = "tv" =>
             /\ tv' = [tv EXCEPT !.loading = TRUE, !.error = Null,
                                 !.currentCategory = tv'.currentCategory,
                                 !.searchQuery = tv'.searchQuery]
             /\ mv' = mv
       /\ last'.ev = "request" /\ last'.call.store = "movie" =>
             /\ mv' = [mv EXCEPT !.loading = TRUE, !.error = Null,
                                 !.searchQuery = mv'.searchQuery,
                                 !.searchParams = mv'.searchParams,
                                 !.selectedGenreId = mv'.selectedGenreId]
             /\ tv' = tv
       /\ last'.ev = "failure" /\ last'.call.store = "tv" =>
             /\ tv' = [tv EXCEPT !.loading = FALSE, !.error = tv'.error]
             /\ tv'.error # Null
             /\ mv' = mv
       /\ last'.ev = "failure" /\ last'.call.store = "movie" =>
             /\ mv' = [mv EXCEPT !.loading = FALSE, !.error = mv'.error]
             /\ mv'.error # Null
             /\ tv' = tv
      ]_vars

\* C7 witness: a TV series action run alone has failed while a list loaded
\* earlier was on display; the list and its cache entry are still there
FailedAloneKeepsSeries ==
    /\ last.ev = "failure"
    /\ last.call.store = "tv"
    /\ last.call.id = 2
    /\ calls = {}
    /\ tv.series # <<>>
    /\ tv.seriesCache # EmptyMap
    /\ tv.error # Null
    /\ ~tv.loading

\* C8: a search action given an empty or whitespace-only query issues no
\* upstream search and runs the category load instead: fetchSeries('popular',
\* 1) for searchForSeries, fetchMovies for searchForMovies.
BlankSearchDelegates ==
    (/\ last.ev \in {"hit", "request"}
     /\ last.call.entry \in {"searchForSeries", "searchForMovies"}
     /\ Trim(last.call.query) = "")
    => /\ last.call.upstream \notin {"searchTVSeries", "searchMovies"}
       /\ last.call.entry = "searchForSeries" =>
             /\ last.call.op = "fetchSeries"
             /\ last.call.category = "popular"
             /\ last.call.page = 1
       /\ last.call.entry = "searchForMovies" => last.call.op = "fetchMovies"

\* C9: after a successful searchForMovies with a non-empty query, movies is
\* the upstream results reordered by non-increasing release year (no
\* release_date: year 0), items of the same year in their upstream order.
SearchSortedByReleaseYear ==
    (/\ last.ev = "success"
     /\ last.call.op = "searchForMovies"
     /\ Trim(last.call.query) # "")
    => LET up == last.body.results
           n == Len(up)
           \* the year written in release_date
           ReleaseYear(movie) ==
               IF movie.release_date = "" THEN 0
               ELSE Number(SubSeq(movie.release_date, 1, 4))
           \* the bijections of 1..n
           Orders == {p \in [1..n -> 1..n] : \A i, j \in 1..n : i # j => p[i] # p[j]}
       IN  /\ Len(mv.movies) = n
           /\ \A i, j \in 1..n :
                 i < j => ReleaseYear(mv.movies[i]) >= ReleaseYear(mv.movies[j])
           /\ \E p \in Orders :
                 /\ \A i \in 1..n : mv.movies[i] = up[p[i]]
                 /\ \A i, j \in 1..n :
                       (i < j /\ ReleaseYear(mv.movies[i]) = ReleaseYear(mv.movies[j]))
                           => p[i] < p[j]

\* C10: getPopularMovies(page, n), n >= 1, issues exactly ceil(n / 20)
\* upstream requests, for the pages page, page + 1, ...; what it returns is
\* the results of these pages in page order cut to the first n items, with
\* the total_pages and total_results of the reply to the first page.
PopularFanOut ==
    LET \* the first k items of the upstream list from upstream page p on
        CatalogFrom(size, p, k) ==
            LET first == (p - 1) * 20
                left == IF size > first THEN size - first ELSE 0
            IN  [j \in 1..(IF k < left THEN k ELSE left) |-> first + j]
    IN
    /\ pop.pc \in {"waiting", "done"} =>
          /\ Len(pop.requested) = (pop.n + 19) \div 20
          /\ Len(pop.replies) = Len(pop.requested)
          /\ \A i \in DOMAIN pop.requested : pop.requested[i] = pop.page + i - 1
    /\ pop.pc = "done" =>
          pop.out.ok = (\A i \in DOMAIN pop.replies : pop.replies[i].ok)
    /\ pop.pc = "done" /\ pop.out.ok =>
          /\ pop.out.data.results = CatalogFrom(pop.catalog, pop.page, pop.n)
          /\ pop.out.data.page = pop.page
          /\ pop.out.data.total_pages = pop.replies[1].body.total_pages
          /\ pop.out.data.total_results = pop.replies[1].body.total_results

\* C10 witness: 45 results asked from page 1: three replies, whose totals
\* differ, joined into the first 45 of the 60 items fetched
FortyFiveOfSixty ==
    /\ pop.pc = "done"
    /\ pop.out.ok
    /\ pop.page = 1
    /\ pop.n = 45
    /\ Len(pop.requested) = 3
    /\ Len(ConcatResults([i \in 1..3 |-> pop.replies[i].body])) = 60
    /\ Len(pop.out.data.results) = 45
    /\ pop.replies[1].body.total_results # pop.replies[2].body.total_results
    /\ pop.out.data.total_results = pop.replies[1].body.total_results

\* C11: every page of getTrendingMovies is attempted at most 3 times, a retry
\* only ever following a failed attempt; the caller receives nothing while
\* attempts are still being retried; the call succeeds exactly when every
\* page was answered with a result list within its 3 attempts, and then
\* returns pages 1, 2, 3 concatenated in that order; otherwise it fails as a
\* whole, with no results, on the error of a page whose third attempt failed
\* (or on the unusable body).
TrendingRetriedThenJoined ==
    LET pages == 1..TrendingPages
        succeeded(p) == trend.page[p].state = "fulfilled" /\ trend.page[p].body.valid
        served == IF trend.catalog < 60 THEN trend.catalog ELSE 60
    IN  /\ \A p \in pages :
              /\ trend.page[p].attempts <= 3
              /\ trend.page[p].attempts <= trend.page[p].failures + 1
              /\ trend.page[p].state = "rejected" => trend.page[p].failures = 3
        /\ trend.pc = "waiting" => trend.out = TrendIdle.out
        /\ trend.pc = "done" =>
              /\ trend.out.ok <=> \A p \in pages : succeeded(p)
              /\ trend.out.ok =>
                    /\ trend.out.data.results = [j \in 1..served |-> j]
                    /\ trend.out.data.page = 1
              /\ ~trend.out.ok =>
                    /\ trend.out.data = InvalidBody
                    /\ \/ \E p \in pages :
                             /\ trend.page[p].state = "rejected"
                             /\ trend.out.error = handleApiError(trend.page[p].error)
                       \/ \A p \in pages : trend.page[p].state = "fulfilled"

\* pages 1 and 3 answered at once, page 2 on its third attempt: 45 items
\* come back in order
ThirdAttemptJoined ==
    /\ trend.pc = "done"
    /\ trend.out.ok
    /\ trend.catalog = 45
    /\ trend.page[2].attempts = 3
    /\ trend.page[1].attempts = 1
    /\ Len(trend.out.data.results) = 45

\* C12: getBestTrailer returns null exactly when it is given no list, an
\* empty list or a list without a YouTube video, and never a video of another
\* site; otherwise, for the first type among Trailer, Teaser, Clip, Behind
\* the Scenes that some YouTube video of the list has, it returns the first
\* official YouTube video of that type, or failing that the first YouTube
\* video of that type; if no YouTube video has one of these types it returns
\* the first YouTube video of the list.
BestTrailerByTypeThenOfficial ==
    trailer.pc = "returned" =>
        LET videos == trailer.videos
            order == <<"Trailer", "Teaser", "Clip", "Behind the Scenes">>
            youTube == {i \in DOMAIN videos : videos[i].site = "YouTube"}
            ofType(k) == {i \in youTube : videos[i].type = order[k]}
            held == {k \in 1..4 : ofType(k) # {}}
            first(S) == CHOOSE i \in S : \A j \in S : i <= j
        IN  /\ trailer.out = NoVideo <=> (~trailer.present \/ youTube = {})
            /\ trailer.out # NoVideo =>
                  /\ trailer.out.site = "YouTube"
                  /\ IF held = {}
                     THEN trailer.out = videos[first(youTube)]
                     ELSE LET typed == ofType(first(held))
                              official == {i \in typed : videos[i].official}
                          IN  trailer.out =
                                  videos[first(IF official # {} THEN official ELSE typed)]

\* an official YouTube Teaser listed before an unofficial YouTube Trailer: the
\* Trailer is returned
UnofficialTrailerBeatsOfficialTeaser ==
    /\ trailer.pc = "returned"
    /\ Len(trailer.videos) >= 2
    /\ trailer.videos[1] = [key |-> 1, site |-> "YouTube", type |-> "Teaser", official |-> TRUE]
    /\ trailer.videos[2] = [key |-> 2, site |-> "YouTube", type |-> "Trailer", official |-> FALSE]
    /\ trailer.out = trailer.videos[2]

\* C13: in every state of the auth store, isAuthenticated is true exactly when
\* the store holds a token (token neither null nor undefined).
AuthenticatedIffToken ==
    auth.store.isAuthenticated <=> auth.store.token \notin {Null, Undefined}

SignOutClearsSession ==
    [][/\ (auth'.done # auth.done /\ auth'.done.op = "signOut") =>
             /\ auth'.storage = Null
             /\ auth'.store.user = NoUser
             /\ auth'.store.token = Null
             /\ ~auth'.store.isAuthenticated
             /\ auth'.store.favorites = <<>>
             /\ auth'.store.watchlist = <<>>
             /\ auth'.store.loading = FALSE
             /\ auth'.pending = auth.pending
             /\ auth'.done.success
       /\ (auth'.done # auth.done /\ auth'.done.op = "logout") =>
             /\ auth'.storage = Null
             /\ auth'.done.success
             /\ auth'.store = auth.store
       /\ (\E call \in auth.pending \ auth'.pending : call.op = "logout") =>
             /\ auth'.store = auth.store
             /\ auth'.storage = auth.storage
             /\ auth'.done = auth.done]_vars

\* signOut has completed while the watchlist sync of the session it ended is
\* still unanswered
SignedOutWhileSyncPending ==
    /\ auth.done.op = "signOut"
    /\ \E call \in auth.pending : call.op = "update-watchlist"
    /\ auth.store = AuthStoreInit
    /\ auth.storage = Null

\* C16: addToFavorites(x) removes x from favorites when it is there and
\* appends it when it is not, and a second addToFavorites(x) right after the
\* first gives back the list as it was before the first, ids and order; the
\* same for addToWatchlist and watchlist.
DoubleToggleRestores ==
    [][(/\ auth'.done # auth.done
        /\ auth'.done.op \in {"addToFavorites", "addToWatchlist"}) =>
           LET list == IF auth'.done.op = "addToFavorites"
                       THEN auth'.store.favorites ELSE auth'.store.watchlist
               F == auth'.done.before
               x == auth'.done.id
           IN  /\ (\E i \in DOMAIN F : F[i] = x) => \A i \in DOMAIN list : list[i] # x
               /\ (\A i \in DOMAIN F : F[i] # x) => list = Append(F, x)
               /\ (auth.done.op = auth'.done.op /\ auth.done.id = x) =>
                      list = auth.done.before]_vars

\* C17: the response requestPasswordReset gives to a request with an email
\* has the status, the body fields and the message that a request with any
\* other email would get, registered or not.
ResetRequestsAnsweredAlike ==
    (acct.res.req.endpoint = "forgot-password" /\ acct.res.req.email # "") =>
        \A other \in Emails :
            LET response == requestPasswordReset(acct.users, other, acct.res.at).response
            IN  /\ response.status = acct.res.status
                /\ response.fields = acct.res.fields
                /\ response.message = acct.res.message

\* C18: resetPassword answers 200 or changes a stored password only when the
\* presented token is signed by the service, was signed less than 1 hour
\* before and carries purpose = 'password_reset' (and a new password came
\* with it); the only change is that the hash of the token's user becomes the
\* hash of the new password; with any other token, without token or without
\* password, the status is an error status and the users are unchanged.
ResetOnlyWithValidResetToken ==
    [][(acct'.res.n # acct.res.n /\ acct'.res.req.endpoint = "reset-password") =>
           LET token == acct'.res.req.token
               newPassword == acct'.res.req.password
               entitled == /\ token.signed
                           /\ token.purpose = "password_reset"
                           /\ acct.now - token.at < 60 * 60 * 1000
                           /\ newPassword # ""
           IN  /\ (acct'.res.status = 200 \/ acct'.users # acct.users) => entitled
               /\ ~entitled => acct'.res.status >= 400
               /\ acct'.res.status # 200 => acct'.users = acct.users
               /\ Len(acct'.users) = Len(acct.users)
               /\ \A i \in DOMAIN acct.users :
                     IF acct'.res.status = 200 /\ i = token.sub
                     THEN acct'.users[i] =
                              [acct.users[i] EXCEPT !.password = "$2b$" \o newPassword]
                     ELSE acct'.users[i] = acct.users[i]]_vars

\* a reset token signed 59 min 59 s earlier has replaced the password of a@x.com
ResetWithFreshToken ==
    /\ acct.res.req.endpoint = "reset-password"
    /\ acct.res.status = 200
    /\ acct.res.req.token.purpose = "password_reset"
    /\ acct.res.at - acct.res.req.token.at = 3599000
    /\ acct.users[1] = [email |-> "a@x.com", password |-> "$2b$pw2"]

\* C19: a request to a bearer-authenticated endpoint that presents a session
\* token signed by a login or register handler is let through when the token
\* was signed less than 30 minutes before, and refused when it was signed
\* more than 30 minutes before.
SessionTokenThirtyMinutes ==
    (/\ acct.res.req.endpoint = "profile"
     /\ acct.res.req.token.signed
     /\ acct.res.req.token.by \in {"route", "controller", "netlify"}) =>
        LET age == acct.res.at - acct.res.req.token.at
        IN  /\ age < 30 * 60 * 1000 => acct.res.status = 200
            /\ age > 30 * 60 * 1000 => acct.res.status \in {401, 403}

\* C20: no two users hold the same email, and a register request answered
\* when its email already has a user gets status 400 and adds no user.
DuplicateRegistrationRefused ==
    [][/\ \A i, j \in DOMAIN acct'.users :
             acct'.users[i].email = acct'.users[j].email => i = j
       /\ (/\ acct'.res.n # acct.res.n
           /\ acct'.res.req.endpoint = "register"
           /\ \E i \in DOMAIN acct.users : acct.users[i].email = acct'.res.req.email) =>
              /\ acct'.res.status = 400
              /\ acct'.users = acct.users]_vars

RoutingReachesStableRoute ==
    (ui.route.appChecked /\ ~auth.store.loading) =>
        ~(/\ AuthRoute(auth.store) = "redirect"
          /\ ProtectedRoute(auth.store, TRUE) = "redirect")


\* C23: once signOut has completed, and as long as no operation has been
\* started after it, every step leaves the store unauthenticated with no
\* token in the store or in localStorage: the late response of a signIn,
\* signUp or checkAuthentication started before the signOut does not
\* re-authenticate the session.
SignedOutStaysSignedOut ==
    [][(auth.done.op = "signOut" /\ auth'.started = auth.done.n) =>
          /\ ~auth'.store.isAuthenticated
          /\ auth'.store.token = Null
          /\ auth'.storage = Null]_vars


\* C26: whenever checkAuthentication returns false (no stored token, token
\* rejected by the verify endpoint, response without a user, request error),
\* the store afterwards has isAuthenticated = false, user = null and
\* token = null, whatever state it was called from.
FailedCheckSignsOut ==
    [][(/\ auth'.done # auth.done
        /\ auth'.done.op = "checkAuthentication"
        /\ ~auth'.done.success) =>
          /\ ~auth'.store.isAuthenticated
          /\ auth'.store.user = NoUser
          /\ auth'.store.token = Null]_vars


\* C24: a password-reset token presented as the Authorization bearer never
\* gives access to an endpoint behind authenticateToken: a /users/profile
\* request that carries a token with purpose 'password_reset' is not
\* answered 200.
ResetTokenIsNoBearer ==
    (/\ acct.res.req.endpoint = "profile"
     /\ acct.res.req.token.purpose = "password_reset") =>
        acct.res.status # 200


\* C25: a password-reset token is single-use: a resetPassword request that
\* presents the token of the reset that succeeded just before it is rejected
\* and leaves the users collection as it was.
ResetTokenSingleUse ==
    [][(/\ acct.res.req.endpoint = "reset-password"
        /\ acct.res.status = 200
        /\ acct'.res.n # acct.res.n
        /\ acct'.res.req.endpoint = "reset-password"
        /\ acct'.res.req.token = acct.res.req.token) =>
          /\ acct'.res.status >= 400
          /\ acct'.users = acct.users]_vars


\* C28: in every state of the movie store and of the TV series store in
\* which no action is in flight and error is null, 1 <= currentPage <=
\* totalPages, after cache hits as well as after upstream fetches.
CurrentPageWithinTotal ==
    /\ (calls = {} /\ tv.error = Null) =>
          (1 <= tv.currentPage /\ tv.currentPage <= tv.totalPages)
    /\ (calls = {} /\ mv.error = Null) =>
          (1 <= mv.currentPage /\ mv.currentPage <= mv.totalPages)


\* C29: a request of a cached operation of the movie store that is served
\* from movieCache ends as its successful upstream fetch would: with error
\* null and loading false and, for fetchMovies and fetchMoviesByGenre, with
\* searchQuery cleared and currentPage the page asked for.
CacheHitEndsLikeFetch ==
    [][(/\ started' # started
        /\ last'.ev = "hit"
        /\ last'.call.store = "movie") =>
          /\ mv'.error = Null
          /\ ~mv'.loading
          /\ last'.call.entry \in {"fetchMovies", "fetchMoviesByGenre"} =>
                /\ mv'.searchQuery = ""
                /\ mv'.currentPage = last'.call.page]_vars


\* C30: for the default page size of 40, the upstream pages getPopularMovies
\* requests for listing page p and the ones it requests for listing page
\* p + 1 are disjoint.
ConsecutiveListingsDisjoint ==
    (pop.pc \in {"waiting", "done"} /\ pop.n = DefaultPageSize) =>
        LET next == PopularPages(pop.page + 1, DefaultPageSize)
        IN  {pop.requested[i] : i \in DOMAIN pop.requested}
                \cap {next[i] : i \in DOMAIN next} = {}


====
